---- MODULE Spec2Model ----
(***************************************************************************)
(* A model of the agent runtime of azure-semantic-kernel-agent-starter:    *)
(*   - the streaming event pipeline of AgentRuntime.stream_process_query   *)
(*     and of the streaming group-chat endpoint (one asyncio event loop,   *)
(*     cooperative scheduling: a step runs from one await/yield to the     *)
(*     next);                                                              *)
(*   - the SSE framing of the five streaming endpoints;                    *)
(*   - the persistence layer (scoped database sessions, sessions with      *)
(*     expiry, the anonymous user, persisted queries);                     *)
(*   - the group chat, AgentPlugin.call_agent and its requests;            *)
(*   - AgentRuntime.process_query and the conversation records;            *)
(*   - the persisted stream and the enhanced API's query endpoint;         *)
(*   - the math operations of the embedded plugin and of the tool server;  *)
(*   - the peer agents: query classification and message envelopes;       *)
(*   - the removal of sessions and conversations with their dependants;    *)
(*   - the service supervisor and the runtime singleton of the APIs;       *)
(*   - the agents_used of a streaming call.                                *)
(***************************************************************************)
EXTENDS Integers, Sequences, FiniteSets, TLC

NULL == "null"
\* no queue: the None of event_queue and of AgentPlugin._event_queue
NoQueue == 0

\* ------------------------------------------------------------------------
\* Bounds
\* ------------------------------------------------------------------------
\* events the background tasks of streaming queries may put on the queues
MaxEvents == 2
\* chunks the inner generator of one SSE stream may yield
MaxChunks == 3
\* the clock stops here
MaxTime == 2
\* sessions that may be created
MaxSessions == 2
\* largest absolute value of an argument of a math operation
MaxArg == 7
\* words in a query to the Math Agent
MaxWords == 3
\* messages the peer agents answer with an envelope
MaxMessages == 2
\* requests that reach get_runtime
MaxRequests == 4
\* streaming calls after the earlier operations, and agent calls within one
MaxStreams == 1
MaxAgentCalls == 1

\* the streaming calls made on one runtime instance
Calls == {1, 2}
\* the registered AgentHandles (AgentRuntime.agents)
Agents == {"a1", "a2"}
\* the agent lists a group chat may be built over
GroupChoices == {<<"a1">>, <<"a1", "a2">>}

VARIABLES
    \* ---- streaming runtime (src/runtime/agent_runtime.py) ----
    event_queue,   \* AgentRuntime.event_queue: NoQueue or the id of a queue
    queues,        \* contents of every asyncio.Queue created, by queue id
    unfinished,    \* asyncio.Queue._unfinished_tasks, by queue id
    agent_queue,   \* AgentPlugin._event_queue of every registered agent
    kind,          \* "query" (stream_process_query) or "group" (group chat)
    pc,            \* where each call's drain loop is suspended
    waitq,         \* the queue a pending wait_for(queue.get()) was issued on
    out,           \* what each call has yielded to its caller so far
    task,          \* each call's background task
    response,      \* stream_group_chat_response's local `response`
    group,         \* AgentGroupChat.agents of a group call
    produced,      \* history: the events each call's task has enqueued
    overlapped     \* history: the call shared the runtime with another call

streamVars == <<event_queue, queues, unfinished, agent_queue, kind, pc, waitq,
                out, task, response, group, produced, overlapped>>

VARIABLES
    \* ---- SSE framing of the streaming endpoints ----
    sse_comp,      \* the endpoint that serves the stream in flight
    sse_pc,        \* "idle", "streaming", "closed"
    sse_in,        \* the chunks the endpoint's inner generator has produced
    sse_out        \* the items the endpoint has written to the response body

sseVars == <<sse_comp, sse_pc, sse_in, sse_out>>

VARIABLES
    \* ---- persistence (src/database, src/runtime/enhanced_agent_runtime.py) ----
    now,           \* the wall clock (datetime.utcnow(), the store's now())
    users,         \* rows of table users
    sessions,      \* rows of table sessions
    conversations, \* rows of table conversations
    messages,      \* rows of table messages, in insertion order
    req,           \* the process_query_with_persistence requests
    issued,        \* history: expires_at of every session created, by token
    expired_gone,  \* history: tokens removed by a lookup after their expiry
    sess_last,     \* history: the latest session operation and its outcome
    req_overlap    \* history: two persisted queries ran concurrently

dbVars == <<now, users, sessions, conversations, messages, req, issued,
            expired_gone, sess_last, req_overlap>>

VARIABLES
    \* ---- AgentGroupChat.process_query and AgentPlugin.call_agent ----
    gc_pc,               \* "idle", "run", "http", "done"
    gc_in,               \* the request: mode, agent_ids, max_iterations, ...
    gc_agents,           \* AgentGroupChat.agents (ids, in list order)
    gc_cid,              \* process_query's conversation_id once resolved
    gc_i,                \* position of the `for agent in self.agents` loop
    gc_responses,        \* process_query's local `responses`
    gc_result,           \* the Message process_query returned
    gc_requests,         \* every request generate_request has built
    gc_events,           \* what call_agent has put on an attached queue
    last_called_agent,   \* module global of agent_runtime.py
    last_agent_response, \* module global of agent_runtime.py
    gc_log               \* history: call_agent entries and returns

gcVars == <<gc_pc, gc_in, gc_agents, gc_cid, gc_i, gc_responses, gc_result,
            gc_requests, gc_events, last_called_agent, last_agent_response,
            gc_log>>

\* the parts of the state added after the streaming runtime, the SSE framing
\* and the store
VARIABLES
    \* ---- AgentRuntime.process_query ----
    conversation_records, \* AgentRuntime.conversations, by conversation id
    query,                \* the process_query calls
    query_overlap         \* history: two process_query calls overlapped

pqVars == <<conversation_records, query, query_overlap>>

VARIABLES
    \* ---- stream_process_query_with_persistence ----
    ps_pc,      \* "idle", "next", "forwarded", "annotated", "closed"
    ps_base,    \* the chunks the base stream_process_query has yielded
    ps_out,     \* the chunks the caller has received
    ps_stored,  \* assistant messages stored by the stream
    ps_user,    \* user messages stored by the stream
    ps_full,    \* full_response_content: the fragments collected
    ps_assistant \* the content of each assistant message stored

psVars == <<ps_pc, ps_base, ps_out, ps_stored, ps_user, ps_full, ps_assistant>>

VARIABLES
    \* ---- POST /api/query of the enhanced API ----
    api_pc,          \* "idle", "dep_session", "dep_user", "handed"
    api_in,          \* the request: header token, body session_token, user_id
    api_session_id,  \* process_query's session_id
    api_user_id,     \* process_query's user_id
    api_hdr,         \* history: the values the two dependencies supplied
    api_at           \* history: the times of the request's session lookups

apiVars == <<api_pc, api_in, api_session_id, api_user_id, api_hdr, api_at>>

VARIABLES
    \* ---- the math operations ----
    math_call,      \* the operation invoked and its arguments
    plugin_result,  \* what the embedded MathPlugin returned or raised
    tool_result     \* what the remote math tool returned or raised

mathVars == <<math_call, plugin_result, tool_result>>

VARIABLES
    \* ---- the query handling of the remote-tool Math Agent ----
    agent_query,    \* the text handed to solve_math_problem, as characters
    agent_answer    \* the handler that answered and the tool call it made

clsVars == <<agent_query, agent_answer>>

VARIABLES
    \* ---- POST /api/message of the peer agents ----
    peer_agent,     \* the agent that received the last request
    peer_request,   \* request.json of the last request
    peer_response,  \* the status and the body it was answered with
    peer_issued     \* the ids uuid.uuid4() has returned, oldest first

peerVars == <<peer_agent, peer_request, peer_response, peer_issued>>

VARIABLES
    \* ---- deletions in the store, with their cascades ----
    removal,      \* the delete_conversation, delete_session or get_session
                  \* call in progress: its position and what it has loaded
    created_in    \* history: the conversations created with a session_id

casVars == <<removal, created_in>>

VARIABLES
    \* ---- the service supervisor (src/main.py) ----
    sup_pc,        \* where start_all_services is
    processes,     \* ServiceManager.processes, in start order
    child,         \* each child process: not started, running, exited, killed
    sup_i,         \* the position of the loop of shutdown_all_services
    sup_recorded,  \* history: the children that were recorded
    sup_log        \* history: what the supervisor did, in order

supVars == <<sup_pc, processes, child, sup_i, sup_recorded, sup_log>>

VARIABLES
    \* ---- get_runtime of the two APIs ----
    runtime_instance,  \* _runtime_instance: NoRuntime or the instance
    constructed,       \* history: the instances constructed so far
    rt_req             \* each request's dependency call: position and result

rtVars == <<runtime_instance, constructed, rt_req>>

VARIABLES
    \* ---- the agents_used of a streaming call ----
    st_pc,        \* the streaming call: "idle", "running", "http", "done"
    st_n,         \* streaming calls begun so far
    st_called,    \* history: agents whose call_agent ran in this call
    st_terminal   \* the terminal event of the latest streaming call

stVars == <<st_pc, st_n, st_called, st_terminal>>

extVars == <<gcVars, pqVars, psVars, apiVars, mathVars>>

\* the groups of the later components, and everything but each of them
lateVars == <<clsVars, peerVars, casVars, supVars, rtVars, stVars>>
notCls == <<streamVars, sseVars, dbVars, extVars, peerVars, casVars, supVars, rtVars, stVars>>
notPeer == <<streamVars, sseVars, dbVars, extVars, clsVars, casVars, supVars, rtVars, stVars>>
\* (the deletions act on the store)
notCas == <<streamVars, sseVars, extVars, clsVars, peerVars, supVars, rtVars, stVars>>
notSup == <<streamVars, sseVars, dbVars, extVars, clsVars, peerVars, casVars, rtVars, stVars>>
notRt == <<streamVars, sseVars, dbVars, extVars, clsVars, peerVars, casVars, supVars, stVars>>
notSt == <<streamVars, sseVars, dbVars, extVars, clsVars, peerVars, casVars, supVars, rtVars>>
\* (the streaming call shares the globals of call_agent)
notStGc == <<streamVars, sseVars, dbVars, pqVars, psVars, apiVars, mathVars, clsVars, peerVars, casVars, supVars, rtVars>>
\* end of the groups

\* everything but the streaming runtime / the SSE framing / the store
notStream == <<sseVars, dbVars, extVars, lateVars>>
notSse == <<streamVars, dbVars, extVars, lateVars>>
notDb == <<streamVars, sseVars, extVars, lateVars>>
coreVars == <<streamVars, sseVars, dbVars, pqVars, psVars, apiVars, mathVars, lateVars>>
notPq == <<streamVars, sseVars, dbVars, gcVars, psVars, apiVars, mathVars, lateVars>>
notPs == <<streamVars, sseVars, dbVars, gcVars, pqVars, apiVars, mathVars, lateVars>>
\* everything but the store and the enhanced query endpoint
notApi == <<streamVars, sseVars, gcVars, pqVars, psVars, mathVars, lateVars>>
notMath == <<streamVars, sseVars, dbVars, gcVars, pqVars, psVars, apiVars, lateVars>>

vars == <<streamVars, sseVars, dbVars, extVars, lateVars>>

\* ------------------------------------------------------------------------
\* Events and stream items
\* ------------------------------------------------------------------------
Item(t, c, n, a, r) == [type |-> t, call |-> c, n |-> n, agent |-> a, response |-> r]

\* {"content": chunk_text}
ContentEvent(c, n) == Item("content", c, n, NULL, <<>>)
\* {"agent_call": id, "agent_query": query}
AgentCallEvent(c, n, a) == Item("agent_call", c, n, a, <<>>)
\* {"agent_id": id, "agent_response": content}
AgentResponseEvent(c, n, a) == Item("agent_response", c, n, a, <<>>)
\* {"chunk": None, "complete": True, "response": full_response_content, ...}
CompleteResult(c, acc) == Item("complete", c, 0, NULL, acc)
\* {"error": ...}
ErrorResult(c) == Item("error", c, 0, NULL, <<>>)

QueueEventTypes == {"content", "agent_call", "agent_response"}

Last(s) == s[Len(s)]

NoResult == Item("none", 0, 0, NULL, <<>>)

NoTask == [st |-> "none", acc |-> <<>>, i |-> 1, cur |-> NULL, result |-> NoResult]

StreamInit ==
    /\ event_queue = NoQueue
    /\ queues = [q \in Calls |-> <<>>]
    /\ unfinished = [q \in Calls |-> 0]
    /\ agent_queue = [a \in Agents |-> NoQueue]
    /\ kind = [c \in Calls |-> NULL]
    /\ pc = [c \in Calls |-> "idle"]
    /\ waitq = [c \in Calls |-> NoQueue]
    /\ out = [c \in Calls |-> <<>>]
    /\ task = [c \in Calls |-> NoTask]
    /\ response = [c \in Calls |-> <<>>]
    /\ group = [c \in Calls |-> <<>>]
    /\ produced = [c \in Calls |-> <<>>]
    /\ overlapped = [c \in Calls |-> FALSE]

\* ------------------------------------------------------------------------
\* Shared pieces of the two drain loops
\* ------------------------------------------------------------------------
TaskDone(c) == task[c].st = "done"

\* the loop condition without its queue test
DrainContinuesTaskOnly(c) == ~TaskDone(c)

\* `while not query_task.done() or not self.event_queue.empty()`
\* (self.event_queue is read when the condition is evaluated)
DrainContinues(c) == ~TaskDone(c) \/ queues[event_queue] # <<>>

\* `for agent in self.agents.values(): agent._event_queue = self.event_queue`
AttachAll(q) == [a \in Agents |-> q]

\* `for agent in self.agents.values(): agent._event_queue = None`
DetachAll == [a \in Agents |-> NoQueue]

\* a queue owned by the call
ContentTargetOwn(c) == c

\* the queue `await self.event_queue.put(...)` resolves to when the task of
\* call c runs it: the attribute of the runtime, not a queue of the call
ContentTarget(c) == event_queue

\* the queue `await self._event_queue.put(...)` of agent a resolves to
AgentTarget(c, a) == agent_queue[a]

\* a call that is using the runtime's shared streaming state
UsesRuntime(d) ==
    \/ pc[d] \in {"get", "yielded", "yield_result", "loop"}
    \/ task[d].st \in {"run", "http"}

\* history only: call c replaces the shared queue; it and every call still
\* using the runtime now overlap
MarkOverlap(c) ==
    overlapped' = [d \in Calls |->
        overlapped[d] \/ ((\E e \in Calls \ {c} : UsesRuntime(e))
                          /\ (d = c \/ UsesRuntime(d)))]

\* asyncio.Queue.put on an unbounded queue: append, count one unfinished task
PutOn(q, e) ==
    /\ queues' = [queues EXCEPT ![q] = Append(@, e)]
    /\ unfinished' = [unfinished EXCEPT ![q] = @ + 1]

NextN(c) == Len(produced[c]) + 1

\* the number of events the query tasks have produced so far
RECURSIVE SumProduced(_)
SumProduced(S) ==
    IF S = {} THEN 0
    ELSE LET c == CHOOSE x \in S : TRUE
         IN (IF kind[c] = "query" THEN Len(produced[c]) ELSE 0)
            + SumProduced(S \ {c})

MayProduce(k) == SumProduced(Calls) + k <= MaxEvents

\* ------------------------------------------------------------------------
\* AgentRuntime.stream_process_query (the drain loop of a single query)
\* ------------------------------------------------------------------------
\* first __anext__: lines 511-547, up to the first wait_for
StreamStart(c) ==
    /\ pc[c] = "idle"
    /\ kind' = [kind EXCEPT ![c] = "query"]
    /\ event_queue' = c
    /\ queues' = [queues EXCEPT ![c] = <<>>]
    /\ unfinished' = [unfinished EXCEPT ![c] = 0]
    /\ agent_queue' = AttachAll(c)
    /\ task' = [task EXCEPT ![c] = [NoTask EXCEPT !.st = "run"]]
    /\ waitq' = [waitq EXCEPT ![c] = c]
    /\ pc' = [pc EXCEPT ![c] = "get"]
    /\ MarkOverlap(c)
    /\ UNCHANGED <<out, response, group, produced>>
    /\ UNCHANGED notStream

\* wait_for(queue.get(), 0.1) returns an event: it is yielded (query: as is,
\* group chat: as one `data: <json>` line) and the generator is suspended
DrainGet(c) ==
    /\ pc[c] = "get"
    /\ queues[waitq[c]] # <<>>
    /\ out' = [out EXCEPT ![c] = Append(@, Head(queues[waitq[c]]))]
    /\ queues' = [queues EXCEPT ![waitq[c]] = Tail(@)]
    /\ pc' = [pc EXCEPT ![c] = "yielded"]
    /\ UNCHANGED <<event_queue, unfinished, agent_queue, kind, waitq, task,
                   response, group, produced, overlapped>>
    /\ UNCHANGED notStream

\* wait_for times out (the queue the get was issued on stayed empty)
\* query: lines 551-559, then the cleanup of lines 561-564 after the result
\* has been taken by the caller (StreamResume)
StreamTimeout(c) ==
    /\ pc[c] = "get"
    /\ kind[c] = "query"
    /\ queues[waitq[c]] = <<>>
    /\ IF TaskDone(c)
       THEN /\ out' = [out EXCEPT ![c] = Append(@, task[c].result)]
            /\ pc' = [pc EXCEPT ![c] = "yield_result"]
            /\ UNCHANGED waitq
       ELSE /\ waitq' = [waitq EXCEPT ![c] = event_queue]
            /\ UNCHANGED <<out, pc>>
    /\ UNCHANGED <<event_queue, queues, unfinished, agent_queue, kind, task,
                   response, group, produced, overlapped>>
    /\ UNCHANGED notStream

\* the caller asks for the next item after an event: task_done(), then the
\* while condition; either a new wait_for or the cleanup and the end
StreamResume(c) ==
    /\ pc[c] = "yielded"
    /\ kind[c] = "query"
    /\ IF unfinished[event_queue] = 0
       THEN \* task_done() raises ValueError out of the generator
            /\ pc' = [pc EXCEPT ![c] = "failed"]
            /\ UNCHANGED <<unfinished, waitq, agent_queue>>
       ELSE /\ unfinished' = [unfinished EXCEPT ![event_queue] = @ - 1]
            /\ IF DrainContinues(c)
               THEN /\ waitq' = [waitq EXCEPT ![c] = event_queue]
                    /\ pc' = [pc EXCEPT ![c] = "get"]
                    /\ UNCHANGED agent_queue
               ELSE /\ agent_queue' = DetachAll
                    /\ pc' = [pc EXCEPT ![c] = "done"]
                    /\ UNCHANGED waitq
    /\ UNCHANGED <<event_queue, queues, kind, out, task, response, group,
                   produced, overlapped>>
    /\ UNCHANGED notStream

\* the caller asks for the next item after the result: break, cleanup, end
StreamResumeResult(c) ==
    /\ pc[c] = "yield_result"
    /\ agent_queue' = DetachAll
    /\ pc' = [pc EXCEPT ![c] = "done"]
    /\ UNCHANGED <<event_queue, queues, unfinished, kind, waitq, out, task,
                   response, group, produced, overlapped>>
    /\ UNCHANGED notStream

\* the caller stops consuming (client disconnect: aclose() at a yield, or the
\* consumer's cancellation reaching the pending await): GeneratorExit /
\* CancelledError leave the generator, no handler and no finally runs
Abandon(c) ==
    /\ pc[c] \in {"get", "yielded", "yield_result", "loop", "started",
                  "final_content", "final_complete", "final_marker",
                  "final_done", "error_event"}
    /\ pc' = [pc EXCEPT ![c] = "abandoned"]
    /\ UNCHANGED <<event_queue, queues, unfinished, agent_queue, kind, waitq,
                   out, task, response, group, produced, overlapped>>
    /\ UNCHANGED notStream

\* ------------------------------------------------------------------------
\* AgentPlugin.call_agent, as run inside a background task of call c
\* ------------------------------------------------------------------------
\* lines 85-106: emit agent_call if a queue is attached, then the HTTP post
call_agent_begin(c, a) ==
    /\ IF AgentTarget(c, a) # NoQueue
       THEN /\ PutOn(AgentTarget(c, a), AgentCallEvent(c, NextN(c), a))
            /\ produced' = [produced EXCEPT
                               ![c] = Append(@, AgentCallEvent(c, NextN(c), a))]
       ELSE UNCHANGED <<queues, unfinished, produced>>

\* an end of the call that emits agent_response whatever the status
call_agent_end_any_status(c, a, ok) ==
    /\ IF AgentTarget(c, a) # NoQueue
       THEN /\ PutOn(AgentTarget(c, a), AgentResponseEvent(c, NextN(c), a))
            /\ produced' = [produced EXCEPT
                               ![c] = Append(@, AgentResponseEvent(c, NextN(c), a))]
       ELSE UNCHANGED <<queues, unfinished, produced>>

\* lines 107-129: status 200 emits agent_response if a queue is attached;
\* any other status or an exception emits nothing
call_agent_end(c, a, ok) ==
    /\ IF ok /\ AgentTarget(c, a) # NoQueue
       THEN /\ PutOn(AgentTarget(c, a), AgentResponseEvent(c, NextN(c), a))
            /\ produced' = [produced EXCEPT
                               ![c] = Append(@, AgentResponseEvent(c, NextN(c), a))]
       ELSE UNCHANGED <<queues, unfinished, produced>>

\* ------------------------------------------------------------------------
\* AgentRuntime._process_query_with_events (background task of a query)
\* ------------------------------------------------------------------------
\* lines 638-652: one chunk of the model's output, then sleep(0.01)
TaskChunk(c) ==
    /\ kind[c] = "query"
    /\ task[c].st = "run"
    /\ MayProduce(1)
    /\ PutOn(ContentTarget(c), ContentEvent(c, NextN(c)))
    /\ produced' = [produced EXCEPT ![c] = Append(@, ContentEvent(c, NextN(c)))]
    /\ task' = [task EXCEPT ![c].acc = Append(@, NextN(c))]
    /\ UNCHANGED <<event_queue, agent_queue, kind, pc, waitq, out, response,
                   group, overlapped>>
    /\ UNCHANGED notStream

\* the kernel's automatic function calling invokes an agent plugin
TaskCallAgent(c, a) ==
    /\ kind[c] = "query"
    /\ task[c].st = "run"
    /\ MayProduce(2)
    /\ call_agent_begin(c, a)
    /\ task' = [task EXCEPT ![c].st = "http", ![c].cur = a]
    /\ UNCHANGED <<event_queue, agent_queue, kind, pc, waitq, out, response,
                   group, overlapped>>
    /\ UNCHANGED notStream

TaskAgentReturn(c, ok) ==
    /\ kind[c] = "query"
    /\ task[c].st = "http"
    /\ call_agent_end(c, task[c].cur, ok)
    /\ task' = [task EXCEPT ![c].st = "run", ![c].cur = NULL]
    /\ UNCHANGED <<event_queue, agent_queue, kind, pc, waitq, out, response,
                   group, overlapped>>
    /\ UNCHANGED notStream

\* lines 654-685: the stream is exhausted, the complete record is returned
TaskFinish(c) ==
    /\ kind[c] = "query"
    /\ task[c].st = "run"
    /\ task' = [task EXCEPT ![c].st = "done",
                            ![c].result = CompleteResult(c, task[c].acc)]
    /\ UNCHANGED <<event_queue, queues, unfinished, agent_queue, kind, pc,
                   waitq, out, response, group, produced, overlapped>>
    /\ UNCHANGED notStream

\* lines 686-692: no kernel, or an exception: an {"error": ...} result
TaskFail(c) ==
    /\ kind[c] = "query"
    /\ task[c].st = "run"
    /\ task' = [task EXCEPT ![c].st = "done", ![c].result = ErrorResult(c)]
    /\ UNCHANGED <<event_queue, queues, unfinished, agent_queue, kind, pc,
                   waitq, out, response, group, produced, overlapped>>
    /\ UNCHANGED notStream

\* ------------------------------------------------------------------------
\* AgentGroupChat.process_query (background task of a streaming group chat)
\* ------------------------------------------------------------------------
\* the aggregate Message: content is the responses joined in list order
GroupMessage(c, acc) == Item("message", c, 0, NULL, acc)

\* line 178, first half: call the next agent of the list
GroupCallAgent(c) ==
    /\ kind[c] = "group"
    /\ task[c].st = "run"
    /\ task[c].i <= Len(group[c])
    /\ call_agent_begin(c, group[c][task[c].i])
    /\ task' = [task EXCEPT ![c].st = "http", ![c].cur = group[c][task[c].i]]
    /\ UNCHANGED <<event_queue, agent_queue, kind, pc, waitq, out, response,
                   group, overlapped>>
    /\ UNCHANGED notStream

\* line 178, second half, and lines 184-196: the call returns its content
\* (the agent's answer, or the error text), which is recorded
GroupAgentReturn(c, ok) ==
    /\ kind[c] = "group"
    /\ task[c].st = "http"
    /\ call_agent_end(c, task[c].cur, ok)
    /\ task' = [task EXCEPT ![c].st = "run", ![c].cur = NULL,
                            ![c].i = @ + 1,
                            ![c].acc = Append(@, <<task[c].cur, ok>>)]
    /\ UNCHANGED <<event_queue, agent_queue, kind, pc, waitq, out, response,
                   group, overlapped>>
    /\ UNCHANGED notStream

\* lines 198-223: every agent has answered, the aggregate Message is returned
GroupFinish(c) ==
    /\ kind[c] = "group"
    /\ task[c].st = "run"
    /\ task[c].i > Len(group[c])
    /\ task' = [task EXCEPT ![c].st = "done",
                            ![c].result = GroupMessage(c, task[c].acc)]
    /\ UNCHANGED <<event_queue, queues, unfinished, agent_queue, kind, pc,
                   waitq, out, response, group, produced, overlapped>>
    /\ UNCHANGED notStream

\* ------------------------------------------------------------------------
\* stream_group_chat_response (src/api/runtime_api.py)
\* ------------------------------------------------------------------------
StartItem(c) == Item("start", c, 0, NULL, <<>>)
\* {'content': response['content']}
FinalContent(c, r) == Item("content", c, 0, NULL, r)
\* {'chunk': None, 'complete': True, 'response': response.get('content', '')}
FinalComplete(c, r) == Item("complete", c, 0, NULL, r)
MarkerItem(c) == Item("marker", c, 0, NULL, <<>>)
DoneItem(c) == Item("done", c, 0, NULL, <<>>)
ErrorItem(c) == Item("error", c, 0, NULL, <<>>)

\* lines 223-228: response = default, the initial event is yielded
GroupStart(c, g) ==
    /\ pc[c] = "idle"
    /\ kind' = [kind EXCEPT ![c] = "group"]
    /\ group' = [group EXCEPT ![c] = g]
    /\ response' = [response EXCEPT ![c] = <<>>]
    /\ out' = [out EXCEPT ![c] = <<StartItem(c)>>]
    /\ pc' = [pc EXCEPT ![c] = "started"]
    /\ UNCHANGED <<event_queue, queues, unfinished, agent_queue, waitq, task,
                   produced, overlapped>>
    /\ UNCHANGED notStream

\* lines 230-262: the queue is created and attached, the task is started
GroupSetup(c) ==
    /\ pc[c] = "started"
    /\ event_queue' = c
    /\ queues' = [queues EXCEPT ![c] = <<>>]
    /\ unfinished' = [unfinished EXCEPT ![c] = 0]
    /\ agent_queue' = AttachAll(c)
    /\ task' = [task EXCEPT ![c] = [NoTask EXCEPT !.st = "run"]]
    /\ waitq' = [waitq EXCEPT ![c] = c]
    /\ pc' = [pc EXCEPT ![c] = "get"]
    /\ MarkOverlap(c)
    /\ UNCHANGED <<kind, out, response, group, produced>>
    /\ UNCHANGED notStream

\* lines 286-292: the loop is left; cleanup, then the final content event
GroupLeaveLoop(c, r) ==
    /\ agent_queue' = DetachAll
    /\ response' = [response EXCEPT ![c] = r]
    /\ out' = [out EXCEPT ![c] = Append(@, FinalContent(c, r))]
    /\ pc' = [pc EXCEPT ![c] = "final_content"]

\* lines 274-284: timeout; a finished task's result becomes the response
GroupTimeout(c) ==
    /\ pc[c] = "get"
    /\ kind[c] = "group"
    /\ queues[waitq[c]] = <<>>
    /\ IF TaskDone(c)
       THEN /\ GroupLeaveLoop(c, task[c].result.response)
            /\ UNCHANGED waitq
       ELSE /\ waitq' = [waitq EXCEPT ![c] = event_queue]
            /\ UNCHANGED <<out, pc, response, agent_queue>>
    /\ UNCHANGED <<event_queue, queues, unfinished, kind, task, group,
                   produced, overlapped>>
    /\ UNCHANGED notStream

\* lines 267-273: after the event's line: task_done(), then sleep(0) (every
\* event of a group chat is an agent_call or an agent_response)
GroupResume(c) ==
    /\ pc[c] = "yielded"
    /\ kind[c] = "group"
    /\ IF unfinished[event_queue] = 0
       THEN \* task_done() raises ValueError: lines 300-302
            /\ out' = [out EXCEPT ![c] = Append(@, ErrorItem(c))]
            /\ pc' = [pc EXCEPT ![c] = "error_event"]
            /\ UNCHANGED unfinished
       ELSE /\ unfinished' = [unfinished EXCEPT ![event_queue] = @ - 1]
            /\ pc' = [pc EXCEPT ![c] = "loop"]
            /\ UNCHANGED out
    /\ UNCHANGED <<event_queue, queues, agent_queue, kind, waitq, task,
                   response, group, produced, overlapped>>
    /\ UNCHANGED notStream

\* line 259: the while condition, evaluated after the sleep
GroupLoopCheck(c) ==
    /\ pc[c] = "loop"
    /\ IF DrainContinues(c)
       THEN /\ waitq' = [waitq EXCEPT ![c] = event_queue]
            /\ pc' = [pc EXCEPT ![c] = "get"]
            /\ UNCHANGED <<out, response, agent_queue>>
       ELSE /\ GroupLeaveLoop(c, response[c])
            /\ UNCHANGED waitq
    /\ UNCHANGED <<event_queue, queues, unfinished, kind, task, group,
                   produced, overlapped>>
    /\ UNCHANGED notStream

\* lines 294-303: the remaining yields, one per resumption
GroupFinal(c) ==
    /\ pc[c] \in {"final_content", "final_complete", "final_marker",
                  "final_done", "error_event"}
    /\ CASE pc[c] = "final_content" ->
              /\ out' = [out EXCEPT ![c] = Append(@, FinalComplete(c, response[c]))]
              /\ pc' = [pc EXCEPT ![c] = "final_complete"]
         [] pc[c] = "final_complete" ->
              /\ out' = [out EXCEPT ![c] = Append(@, MarkerItem(c))]
              /\ pc' = [pc EXCEPT ![c] = "final_marker"]
         [] pc[c] \in {"final_marker", "error_event"} ->
              /\ out' = [out EXCEPT ![c] = Append(@, DoneItem(c))]
              /\ pc' = [pc EXCEPT ![c] = "final_done"]
         [] pc[c] = "final_done" ->
              /\ pc' = [pc EXCEPT ![c] = "done"]
              /\ UNCHANGED out
    /\ UNCHANGED <<event_queue, queues, unfinished, agent_queue, kind, waitq,
                   task, response, group, produced, overlapped>>
    /\ UNCHANGED notStream

\* ------------------------------------------------------------------------
\* The streaming runtime as a whole
\* ------------------------------------------------------------------------
\* every step call c, its consumer or its background task can take
CallStep(c) ==
    \/ StreamStart(c)
    \/ DrainGet(c)
    \/ StreamTimeout(c)
    \/ StreamResume(c)
    \/ StreamResumeResult(c)
    \/ Abandon(c)
    \/ TaskChunk(c)
    \/ \E a \in Agents : TaskCallAgent(c, a)
    \/ \E ok \in BOOLEAN : TaskAgentReturn(c, ok)
    \/ TaskFinish(c)
    \/ TaskFail(c)
    \/ \E g \in GroupChoices : GroupStart(c, g)
    \/ GroupSetup(c)
    \/ GroupCallAgent(c)
    \/ \E ok \in BOOLEAN : GroupAgentReturn(c, ok)
    \/ GroupFinish(c)
    \/ GroupTimeout(c)
    \/ GroupResume(c)
    \/ GroupLoopCheck(c)
    \/ GroupFinal(c)

\* ------------------------------------------------------------------------
\* SSE framing of the streaming endpoints
\* ------------------------------------------------------------------------
\* the five endpoints that answer with a stream
Components == {"runtime_query", "runtime_group", "enhanced_query",
               "math_agent", "math_agent_mcp"}

\* what an inner generator yields: a dict, or a bare string
ChunkKinds == {"dict", "str"}

\* f"data: {json.dumps(x)}\n\n": an SSE data line whose payload is JSON
JsonLine(x) == [frame |-> "data", payload |-> "json", of |-> x]
\* "data: [DONE]\n\n"
DoneLine == [frame |-> "data", payload |-> "[DONE]", of |-> "done"]
\* an item written to the body as it is (no SSE framing)
RawItem(x) == [frame |-> "none", payload |-> "object", of |-> x]

\* the generator flask.stream_with_context returns yields the items of the
\* generator it wraps, unchanged
flask_stream_with_context(x) == RawItem(x)

\* what the endpoint writes for one chunk of its inner generator
\* runtime_query: a str is wrapped as {'content': chunk}, a dict is dumped
\* enhanced_query: a dict is dumped, anything else is wrapped
\* math_agent: the module's own stream_with_context dumps every chunk
\* math_agent_mcp: receive_message passes process_message_stream to Flask's
\*   stream_with_context; stream_with_context_wrapper is never called
FrameChunk(k, x) ==
    IF k = "math_agent_mcp" THEN flask_stream_with_context(x)
    ELSE JsonLine(x)

\* what the endpoint writes before the first chunk
Preamble(k) ==
    IF k \in {"runtime_query", "runtime_group", "enhanced_query"}
    THEN <<JsonLine("start")>>
    ELSE <<>>

\* what the endpoint writes when its inner generator is exhausted
Epilogue(k) ==
    CASE k = "runtime_query" -> <<JsonLine("closing"), DoneLine>>
      [] k = "runtime_group" -> <<JsonLine("content"), JsonLine("complete"),
                                  JsonLine("marker"), DoneLine>>
      [] k = "enhanced_query" -> <<DoneLine>>
      [] k = "math_agent" -> <<DoneLine>>
      [] k = "math_agent_mcp" -> <<>>

\* what the endpoint writes when an exception leaves its inner generator
OnException(k) ==
    IF k = "math_agent_mcp" THEN <<>>
    ELSE <<JsonLine("error"), DoneLine>>

SseInit ==
    /\ sse_comp = NULL
    /\ sse_pc = "idle"
    /\ sse_in = <<>>
    /\ sse_out = <<>>

\* a streaming request reaches endpoint k
SseBegin(k) ==
    /\ sse_pc = "idle"
    /\ sse_comp' = k
    /\ sse_pc' = "streaming"
    /\ sse_out' = Preamble(k)
    /\ UNCHANGED sse_in
    /\ UNCHANGED notSse

\* the inner generator yields a chunk
SseChunk(x) ==
    /\ sse_pc = "streaming"
    /\ Len(sse_in) < MaxChunks
    /\ sse_in' = Append(sse_in, x)
    /\ sse_out' = Append(sse_out, FrameChunk(sse_comp, x))
    /\ UNCHANGED <<sse_comp, sse_pc>>
    /\ UNCHANGED notSse

\* the inner generator is exhausted
SseEnd ==
    /\ sse_pc = "streaming"
    /\ sse_out' = sse_out \o Epilogue(sse_comp)
    /\ sse_pc' = "closed"
    /\ UNCHANGED <<sse_comp, sse_in>>
    /\ UNCHANGED notSse

\* an exception leaves the inner generator
SseRaise ==
    /\ sse_pc = "streaming"
    /\ sse_out' = sse_out \o OnException(sse_comp)
    /\ sse_pc' = "closed"
    /\ UNCHANGED <<sse_comp, sse_in>>
    /\ UNCHANGED notSse

SseNext ==
    \/ \E k \in Components : SseBegin(k)
    \/ \E x \in ChunkKinds : SseChunk(x)
    \/ SseEnd
    \/ SseRaise

\* ------------------------------------------------------------------------
\* The store: sessions (src/database/session.py)
\* ------------------------------------------------------------------------
\* expires_in_hours values a caller may pass (the clock counts hours)
ExpiryChoices == {0, 1}

\* session_token values: secrets.token_urlsafe(32), never repeated
Tokens == 1..MaxSessions

SessionRow(t, e) == [token |-> t, expires_at |-> e]

\* select(SessionModel).where(session_token == t) ... scalar_one_or_none()
SessionByToken(t) == {row \in sessions : row.token = t}

\* the test with <= in place of <
ExpiredInclusive(e, t) == e <= t

\* `session.expires_at < datetime.utcnow()`
Expired(e, t) == e < t

SessOp(op, t, existed, found) ==
    [op |-> op, token |-> t, existed |-> existed, found |-> found, at |-> now]

\* create_session
CreateSession(h) ==
    /\ Len(issued) < MaxSessions
    /\ LET t == Len(issued) + 1
       IN /\ sessions' = sessions \cup {SessionRow(t, now + h)}
          /\ issued' = Append(issued, now + h)
          /\ sess_last' = SessOp("create", t, FALSE, TRUE)
    /\ UNCHANGED <<now, users, conversations, messages, req, expired_gone,
                   req_overlap>>
    /\ UNCHANGED notDb

\* get_session: an expired row is deleted (delete_session) and None returned
GetSession(t) ==
    /\ LET rows == SessionByToken(t)
           hit == rows # {}
           old == \E row \in rows : Expired(row.expires_at, now)
       IN /\ sessions' = IF old THEN sessions \ rows ELSE sessions
          /\ expired_gone' = IF old THEN expired_gone \cup {t} ELSE expired_gone
          /\ sess_last' = SessOp("get", t, hit, hit /\ ~old)
    /\ UNCHANGED <<now, users, conversations, messages, req, issued,
                   req_overlap>>
    /\ UNCHANGED notDb

\* delete_session
DeleteSession(t) ==
    /\ LET rows == SessionByToken(t)
       IN /\ sessions' = sessions \ rows
          /\ sess_last' = SessOp("delete", t, rows # {}, rows # {})
    /\ UNCHANGED <<now, users, conversations, messages, req, issued,
                   expired_gone, req_overlap>>
    /\ UNCHANGED notDb

\* time passes
Tick ==
    /\ now < MaxTime
    /\ now' = now + 1
    /\ UNCHANGED <<users, sessions, conversations, messages, req, issued,
                   expired_gone, sess_last, req_overlap>>
    /\ UNCHANGED notDb

SessionNext ==
    \/ \E h \in ExpiryChoices : CreateSession(h)
    \/ \E t \in Tokens : GetSession(t)
    \/ \E t \in Tokens : DeleteSession(t)
    \/ Tick

\* ------------------------------------------------------------------------
\* The store: users, conversations, messages; persisted queries
\* ------------------------------------------------------------------------
\* the two process_query_with_persistence calls
Reqs == {1, 2}

\* rows present before the first request
InitUsers == {[id |-> "u1", username |-> "alice"]}
\* (session_id: the id of the session a conversation was created under)
InitConversations == {[id |-> "k1", user_id |-> "u1", session_id |-> NULL]}

\* what a caller may pass as conversation_id and as user_id
CidInputs == {NULL, "k1", "kx"}
UidInputs == {NULL, "u1"}

\* the uuid4 defaults of the rows request r inserts
AnonId(r) == IF r = 1 THEN "anon1" ELSE "anon2"
NewConvId(r) == IF r = 1 THEN "n1" ELSE "n2"

NoReq == [pc |-> "idle", cid_in |-> NULL, uid_in |-> NULL, cid |-> NULL,
          user |-> NULL, anon |-> "none"]

InProgress(r) == req[r].pc \notin {"idle", "done", "failed"}

\* select(User).where(User.username == "anonymous")
AnonymousRows == {u \in users : u.username = "anonymous"}

\* users.username is declared unique=True: an INSERT of a taken name fails
UsernameTaken(name) == \E u \in users : u.username = name

\* a lookup that finds nothing
get_conversation_none(k) == {}

\* get_conversation: select(Conversation).where(Conversation.id == k)
get_conversation(k) == {c \in conversations : c.id = k}

MessageRow(k, role, r) ==
    [conversation_id |-> k, role |-> role, created_at |-> now, req |-> r]

\* `async with get_db() as db:` is entered with the caller's arguments
PStart(r, k, u) ==
    /\ req[r].pc = "idle"
    /\ req' = [req EXCEPT ![r] = [NoReq EXCEPT
                  !.cid_in = k, !.uid_in = u,
                  !.pc = IF u # NULL THEN "user_select" ELSE "anon_select"]]
    /\ req_overlap' = (req_overlap \/ \E o \in Reqs \ {r} : InProgress(o))
    /\ UNCHANGED <<now, users, sessions, conversations, messages, issued,
                   expired_gone, sess_last>>
    /\ UNCHANGED notDb

\* lines 43-48: select(User).where(User.id == user_id)
PUserSelect(r) ==
    /\ req[r].pc = "user_select"
    /\ IF \E u \in users : u.id = req[r].uid_in
       THEN req' = [req EXCEPT ![r].user = req[r].uid_in, ![r].pc = "conv"]
       ELSE req' = [req EXCEPT ![r].pc = "anon_select"]
    /\ UNCHANGED <<now, users, sessions, conversations, messages, issued,
                   expired_gone, sess_last, req_overlap>>
    /\ UNCHANGED notDb

\* get_or_create_anonymous_user, the select
PAnonSelect(r) ==
    /\ req[r].pc = "anon_select"
    /\ IF AnonymousRows # {}
       THEN req' = [req EXCEPT
                       ![r].user = (CHOOSE u \in AnonymousRows : TRUE).id,
                       ![r].anon = "returned", ![r].pc = "conv"]
       ELSE req' = [req EXCEPT ![r].pc = "anon_insert"]
    /\ UNCHANGED <<now, users, sessions, conversations, messages, issued,
                   expired_gone, sess_last, req_overlap>>
    /\ UNCHANGED notDb

\* get_or_create_anonymous_user, db.add(user) and commit; a uniqueness
\* failure leaves through get_db (rollback, re-raise)
PAnonInsert(r) ==
    /\ req[r].pc = "anon_insert"
    /\ IF UsernameTaken("anonymous")
       THEN /\ req' = [req EXCEPT ![r].anon = "IntegrityError",
                                  ![r].pc = "failed"]
            /\ UNCHANGED users
       ELSE /\ users' = users \cup {[id |-> AnonId(r), username |-> "anonymous"]}
            /\ req' = [req EXCEPT ![r].user = AnonId(r),
                                  ![r].anon = "returned", ![r].pc = "conv"]
    /\ UNCHANGED <<now, sessions, conversations, messages, issued,
                   expired_gone, sess_last, req_overlap>>
    /\ UNCHANGED notDb

\* lines 52-64: reuse the conversation found under the supplied id, else
\* create_conversation (add, commit) and continue under the new id (the
\* calls pass no session_id)
PConv(r) ==
    /\ req[r].pc = "conv"
    /\ IF req[r].cid_in # NULL /\ get_conversation(req[r].cid_in) # {}
       THEN /\ req' = [req EXCEPT ![r].cid = req[r].cid_in,
                                  ![r].pc = "user_msg"]
            /\ UNCHANGED conversations
       ELSE /\ conversations' = conversations \cup
                   {[id |-> NewConvId(r), user_id |-> req[r].user,
                     session_id |-> NULL]}
            /\ req' = [req EXCEPT ![r].cid = NewConvId(r),
                                  ![r].pc = "user_msg"]
    /\ UNCHANGED <<now, users, sessions, messages, issued, expired_gone,
                   sess_last, req_overlap>>
    /\ UNCHANGED notDb

\* lines 66-75: the user Message is added and committed
PUserMsg(r) ==
    /\ req[r].pc = "user_msg"
    /\ messages' = Append(messages, MessageRow(req[r].cid, "user", r))
    /\ req' = [req EXCEPT ![r].pc = "process"]
    /\ UNCHANGED <<now, users, sessions, conversations, issued, expired_gone,
                   sess_last, req_overlap>>
    /\ UNCHANGED notDb

\* lines 77-82: the base runtime's process_query returns its result
PProcess(r) ==
    /\ req[r].pc = "process"
    /\ req' = [req EXCEPT ![r].pc = "asst_msg"]
    /\ UNCHANGED <<now, users, sessions, conversations, messages, issued,
                   expired_gone, sess_last, req_overlap>>
    /\ UNCHANGED notDb

\* lines 84-96: the assistant Message is added and committed; when the commit
\* raises, get_db rolls back what is uncommitted (this row) and re-raises
PAsstMsg(r, ok) ==
    /\ req[r].pc = "asst_msg"
    /\ IF ok
       THEN /\ messages' = Append(messages, MessageRow(req[r].cid, "assistant", r))
            /\ req' = [req EXCEPT ![r].pc = "touch"]
       ELSE /\ req' = [req EXCEPT ![r].pc = "failed"]
            /\ UNCHANGED messages
    /\ UNCHANGED <<now, users, sessions, conversations, issued, expired_gone,
                   sess_last, req_overlap>>
    /\ UNCHANGED notDb

\* lines 98-107: updated_at is touched and committed, the result returned;
\* the UPDATE of a row that is gone raises (StaleDataError) through get_db
PTouch(r) ==
    /\ req[r].pc = "touch"
    /\ req' = [req EXCEPT ![r].pc =
                  IF \E c \in conversations : c.id = req[r].cid
                  THEN "done" ELSE "failed"]
    /\ UNCHANGED <<now, users, sessions, conversations, messages, issued,
                   expired_gone, sess_last, req_overlap>>
    /\ UNCHANGED notDb

\* the rows of conversation k, in insertion order
MessagesOf(k) == SelectSeq(messages, LAMBDA m : m.conversation_id = k)

\* the orders `ORDER BY created_at` may return rows in: every arrangement
\* with non-decreasing created_at (the order of equal keys is not specified)
OrderedBy(rows) ==
    LET n == Len(rows)
        perms == {f \in [1..n -> 1..n] : \A i, j \in 1..n : i # j => f[i] # f[j]}
        sorted == {f \in perms : \A i, j \in 1..n :
                       i < j => rows[f[i]].created_at <= rows[f[j]].created_at}
    IN {[i \in 1..n |-> rows[f[i]]] : f \in sorted}

\* get_conversation_history_from_db: None for an unknown conversation, else
\* its messages ordered by created_at
get_conversation_history_from_db(k) ==
    [found |-> get_conversation(k) # {},
     messages |-> IF get_conversation(k) # {} THEN OrderedBy(MessagesOf(k))
                  ELSE {}]

PersistStep(r) ==
    \/ \E k \in CidInputs, u \in UidInputs :
           PStart(r, k, u) /\ (r = 1 \/ req[1].pc # "idle")
    \/ PUserSelect(r)
    \/ PAnonSelect(r)
    \/ PAnonInsert(r)
    \/ PConv(r)
    \/ PUserMsg(r)
    \/ PProcess(r)
    \/ \E ok \in BOOLEAN : PAsstMsg(r, ok)
    \/ PTouch(r)

PersistNext ==
    \/ \E r \in Reqs : PersistStep(r)
    \/ Tick

DbInit ==
    /\ now = 0
    /\ users = InitUsers
    /\ sessions = {}
    /\ conversations = InitConversations
    /\ messages = <<>>
    /\ req = [r \in Reqs |-> NoReq]
    /\ issued = <<>>
    /\ expired_gone = {}
    /\ sess_last = [op |-> "none", token |-> 0, existed |-> FALSE,
                    found |-> FALSE, at |-> 0]
    /\ req_overlap = FALSE

\* ------------------------------------------------------------------------
\* POST /api/group-chat, AgentGroupChat.process_query, AgentPlugin.call_agent
\* ------------------------------------------------------------------------
\* AgentRuntime.agents: the registered agent ids, in configuration order
RegisteredIds == <<"hello-agent", "goodbye-agent">>

\* agent ids a request may name
IdInputs == {"hello-agent", "goodbye-agent", "nobody"}

\* the agent_ids field: omitted (given = FALSE), or a list of ids
AgentIdsInputs ==
    {[given |-> FALSE, ids |-> <<>>]}
    \cup {[given |-> TRUE, ids |-> <<>>]}
    \cup {[given |-> TRUE, ids |-> <<x>>] : x \in IdInputs}
    \cup {[given |-> TRUE, ids |-> <<x, y>>] : x \in IdInputs, y \in IdInputs}

\* max_iterations values of a request (5 is the default)
MaxIterationsInputs == {0, 1, 5}

\* conversation_id values: None, the empty string, an id
ConvIdInputs == {NULL, "", "c1"}

\* str(uuid.uuid4()) of process_query and of generate_request
GroupUuid == "uuid-of-process_query"
RequestUuid == "uuid-of-generate_request"

\* a text is a sequence of tokens; these are the contents an agent answers
AgentContents == {<<"A">>, <<"B", " ", "C">>}

\* f"Error calling agent: {response.status}"
StatusErrorText == <<"Error calling agent: 500">>
\* f"Exception calling agent: {str(e)}"
ExceptionText == <<"Exception calling agent: e">>

\* how the HTTP post of a call ends
Outcomes == {"200", "500", "exception"}

\* a module global that is None, or holds a text
Unset == [set |-> FALSE, value |-> <<>>]
SetTo(v) == [set |-> TRUE, value |-> v]

NoGroupRequest ==
    [mode |-> "none", agent_ids |-> [given |-> FALSE, ids |-> <<>>],
     max_iterations |-> 5, cid |-> NULL, attached |-> FALSE]

NoMessage == [returned |-> FALSE, content |-> <<>>, agent_responses |-> <<>>]

GcInit ==
    /\ gc_pc = "idle"
    /\ gc_in = NoGroupRequest
    /\ gc_agents = <<>>
    /\ gc_cid = NULL
    /\ gc_i = 1
    /\ gc_responses = <<>>
    /\ gc_result = NoMessage
    /\ gc_requests = <<>>
    /\ gc_events = <<>>
    /\ last_called_agent = NULL
    /\ last_agent_response = Unset
    /\ gc_log = <<>>

\* self.agents.get(agent_id) is not None
IsRegistered(x) == \E i \in 1..Len(RegisteredIds) : RegisteredIds[i] = x

\* the `agents=` argument of AgentGroupChat(...): the list comprehension over
\* query.agent_ids when query.agent_ids is truthy, every registered agent
\* otherwise
BuildGroup(a) ==
    IF a.given /\ a.ids # <<>>
    THEN SelectSeq(a.ids, IsRegistered)
    ELSE RegisteredIds

\* AgentTerminationStrategy.should_terminate
should_terminate(iteration, max_iterations) == iteration >= max_iterations

\* a loop that asks the termination policy before every call
GroupHasNextByPolicy(i, agents, max_iterations) ==
    i <= Len(agents) /\ ~should_terminate(i - 1, max_iterations)

\* `for agent in self.agents`: the loop goes on while agents are left
GroupHasNext(i, agents, max_iterations) == i <= Len(agents)

RECURSIVE JoinNoSeparator(_)
\* a join that leaves out the separator
JoinNoSeparator(texts) ==
    IF texts = <<>> THEN <<>> ELSE texts[1] \o JoinNoSeparator(Tail(texts))

RECURSIVE Join(_)
\* " ".join(texts)
Join(texts) ==
    IF texts = <<>> THEN <<>>
    ELSE IF Len(texts) = 1 THEN texts[1]
    ELSE texts[1] \o <<" ">> \o Join(Tail(texts))

\* msg_type with the special case left out
msg_type_text(id) == "Text"

\* `msg_type = 0 if self.id == "goodbye-agent" else "Text"` (the JSON value
\* as it is serialised: the number 0 or the string "Text")
msg_type(id) == IF id = "goodbye-agent" THEN "0" ELSE "\"Text\""

\* AgentPlugin.generate_request
generate_request(id, sender_id, conversation_id) ==
    [conversationId |-> IF conversation_id = NULL THEN RequestUuid
                        ELSE conversation_id,
     senderId |-> sender_id,
     recipientId |-> id,
     type |-> msg_type(id),
     handle |-> id,
     cid_arg |-> conversation_id]

\* a reset that keeps what the global held
ResetMarkerKeep(prev) == prev

\* `last_agent_response = None  # Reset the response`
ResetMarker(prev) == Unset

\* what call_agent returns: the agent's content, or an error text
CallResult(outcome, content) ==
    IF outcome = "200" THEN content
    ELSE IF outcome = "500" THEN StatusErrorText
    ELSE ExceptionText

CallEntry(a) == [ev |-> "call", agent |-> a, outcome |-> "none", result |-> <<>>]

CallReturn(a, outcome, content) ==
    [ev |-> "return", agent |-> a, outcome |-> outcome,
     result |-> CallResult(outcome, content)]

\* call_agent up to the HTTP post: the globals are set, agent_call is put on
\* an attached queue, the request is built
CallAgentEnter(a, sender_id, conversation_id, attached) ==
    /\ last_called_agent' = a
    /\ last_agent_response' = ResetMarker(last_agent_response)
    /\ gc_events' = IF attached
                    THEN Append(gc_events, [type |-> "agent_call", agent |-> a])
                    ELSE gc_events
    /\ gc_requests' = Append(gc_requests,
                             generate_request(a, sender_id, conversation_id))
    /\ gc_log' = Append(gc_log, CallEntry(a))

\* call_agent from the answer of the post: status 200 stores and emits the
\* content; any other status and any exception only return an error text
CallAgentExit(a, outcome, content, attached) ==
    /\ last_agent_response' = IF outcome = "200" THEN SetTo(content)
                              ELSE last_agent_response
    /\ gc_events' = IF outcome = "200" /\ attached
                    THEN Append(gc_events, [type |-> "agent_response", agent |-> a])
                    ELSE gc_events
    /\ gc_log' = Append(gc_log, CallReturn(a, outcome, content))
    /\ UNCHANGED <<last_called_agent, gc_requests>>

\* the endpoint builds the group; process_query resolves the conversation id
GcStart(ids, mi, cid, att) ==
    /\ gc_pc = "idle"
    /\ gc_in' = [mode |-> "group", agent_ids |-> ids, max_iterations |-> mi,
                 cid |-> cid, attached |-> att]
    /\ gc_agents' = BuildGroup(ids)
    /\ gc_cid' = IF cid \in {NULL, ""} THEN GroupUuid ELSE cid
    /\ gc_pc' = "run"
    /\ UNCHANGED <<gc_i, gc_responses, gc_result, gc_requests, gc_events,
                   last_called_agent, last_agent_response, gc_log>>
    /\ UNCHANGED coreVars

\* the loop calls its next agent
GcCallAgent ==
    /\ gc_pc = "run"
    /\ gc_in.mode = "group"
    /\ GroupHasNext(gc_i, gc_agents, gc_in.max_iterations)
    /\ CallAgentEnter(gc_agents[gc_i], "user", gc_cid, gc_in.attached)
    /\ gc_pc' = "http"
    /\ UNCHANGED <<gc_in, gc_agents, gc_cid, gc_i, gc_responses, gc_result>>
    /\ UNCHANGED coreVars

\* the call returns and its result is appended to `responses`
GcAgentReturn(outcome, content) ==
    /\ gc_pc = "http"
    /\ gc_in.mode = "group"
    /\ CallAgentExit(gc_agents[gc_i], outcome, content, gc_in.attached)
    /\ gc_responses' = Append(gc_responses,
                              [agent_id |-> gc_agents[gc_i],
                               content |-> CallResult(outcome, content)])
    /\ gc_i' = gc_i + 1
    /\ gc_pc' = "run"
    /\ UNCHANGED <<gc_in, gc_agents, gc_cid, gc_result>>
    /\ UNCHANGED coreVars

\* the loop is over: the contents are joined, the Message is returned
GcFinish ==
    /\ gc_pc = "run"
    /\ gc_in.mode = "group"
    /\ ~GroupHasNext(gc_i, gc_agents, gc_in.max_iterations)
    /\ gc_result' = [returned |-> TRUE,
                     content |-> Join([i \in 1..Len(gc_responses) |->
                                           gc_responses[i].content]),
                     agent_responses |-> gc_responses]
    /\ gc_pc' = "done"
    /\ UNCHANGED <<gc_in, gc_agents, gc_cid, gc_i, gc_responses, gc_requests,
                   gc_events, last_called_agent, last_agent_response, gc_log>>
    /\ UNCHANGED coreVars

\* the kernel's function calling invokes an agent plugin: call_agent(query)
\* with the default sender, and the conversation id the model passes, if any
KernelCall(a, cid, att) ==
    /\ gc_pc = "idle"
    /\ IsRegistered(a)
    /\ gc_in' = [NoGroupRequest EXCEPT !.mode = "kernel", !.cid = cid,
                                       !.attached = att]
    /\ gc_agents' = <<a>>
    /\ CallAgentEnter(a, "runtime", cid, att)
    /\ gc_pc' = "http"
    /\ UNCHANGED <<gc_cid, gc_i, gc_responses, gc_result>>
    /\ UNCHANGED coreVars

KernelReturn(outcome, content) ==
    /\ gc_pc = "http"
    /\ gc_in.mode = "kernel"
    /\ CallAgentExit(gc_agents[1], outcome, content, gc_in.attached)
    /\ gc_pc' = "done"
    /\ UNCHANGED <<gc_in, gc_agents, gc_cid, gc_i, gc_responses, gc_result>>
    /\ UNCHANGED coreVars

GroupChatNext ==
    \/ \E ids \in AgentIdsInputs, mi \in MaxIterationsInputs,
          cid \in ConvIdInputs, att \in BOOLEAN : GcStart(ids, mi, cid, att)
    \/ GcCallAgent
    \/ \E o \in Outcomes, x \in AgentContents : GcAgentReturn(o, x)
    \/ GcFinish
    \/ \E a \in IdInputs, cid \in ConvIdInputs, att \in BOOLEAN :
          KernelCall(a, cid, att)
    \/ \E o \in Outcomes, x \in AgentContents : KernelReturn(o, x)

\* ------------------------------------------------------------------------
\* AgentRuntime.process_query and the in-memory conversation records
\* ------------------------------------------------------------------------
\* the process_query calls, which may overlap at the awaited completion
Queries == {1, 2}

\* str(uuid.uuid4()) of a call that was given no conversation id
QueryUuid(q) == IF q = 1 THEN "uuid-1" ELSE "uuid-2"

\* keys self.conversations may get
RecordIds == {"c1", "uuid-1", "uuid-2"}

NoRecord == [exists |-> FALSE, turns |-> <<>>]

NoQuery == [pc |-> "idle", cid_in |-> NULL, cid |-> NULL, base |-> 0,
            shape |-> "none", content |-> "none", error |-> FALSE,
            conversationId |-> NULL]

Turn(role, q) == [role |-> role, call |-> q]

PqInit ==
    /\ conversation_records = [k \in RecordIds |-> NoRecord]
    /\ query = [q \in Queries |-> NoQuery]
    /\ query_overlap = FALSE

\* `if not conversation_id: conversation_id = str(uuid.uuid4())`
ResolveConversationId(q, cid) == IF cid \in {NULL, ""} THEN QueryUuid(q) ELSE cid

\* an except branch that also records an assistant turn
RecordOnErrorWithTurn(turns, q) == Append(turns, Turn("assistant", q))

\* the except branch builds and returns the error message; the record is
\* left as it is
RecordOnError(turns, q) == turns

\* a record that is emptied at every call
ExistingTurnsReset(rec) == <<>>

\* `if conversation_id not in self.conversations:
\*      self.conversations[conversation_id] = []`
ExistingTurns(rec) == IF rec.exists THEN rec.turns ELSE <<>>

\* lines 346-416: the id is resolved, the record is created if missing, the
\* user turn is appended, and the completion is awaited
PqBegin(q, cid) ==
    /\ query[q].pc = "idle"
    /\ LET k == ResolveConversationId(q, cid)
       IN /\ conversation_records' =
                [conversation_records EXCEPT
                    ![k] = [exists |-> TRUE,
                            turns |-> Append(ExistingTurns(@), Turn("user", q))]]
          /\ query' = [query EXCEPT
                          ![q] = [NoQuery EXCEPT !.pc = "await", !.cid_in = cid,
                                                 !.cid = k,
                                                 !.base = Len(conversation_records[k].turns)]]
    /\ query_overlap' = (query_overlap \/ \E o \in Queries : query[o].pc = "await")
    /\ UNCHANGED notPq

\* lines 418-473: the completion answered; the assistant turn is appended and
\* the response message returned
PqAnswer(q) ==
    /\ query[q].pc = "await"
    /\ conversation_records' =
          [conversation_records EXCEPT
              ![query[q].cid].turns = Append(@, Turn("assistant", q))]
    /\ query' = [query EXCEPT ![q].pc = "done", ![q].shape = "message",
                              ![q].content = "answer",
                              ![q].conversationId = query[q].cid]
    /\ UNCHANGED query_overlap
    /\ UNCHANGED notPq

\* lines 475-493: anything raised inside the try block
PqError(q) ==
    /\ query[q].pc = "await"
    /\ conversation_records' =
          [conversation_records EXCEPT
              ![query[q].cid].turns = RecordOnError(@, q)]
    /\ query' = [query EXCEPT ![q].pc = "done", ![q].shape = "message",
                              ![q].content = "Error processing query: e",
                              ![q].error = TRUE,
                              ![q].conversationId = query[q].cid]
    /\ UNCHANGED query_overlap
    /\ UNCHANGED notPq

ProcessQueryNext ==
    \/ \E q \in Queries, cid \in ConvIdInputs : PqBegin(q, cid)
    \/ \E q \in Queries : PqAnswer(q)
    \/ \E q \in Queries : PqError(q)

\* ------------------------------------------------------------------------
\* EnhancedAgentRuntime.stream_process_query_with_persistence
\* ------------------------------------------------------------------------
\* chunks the base stream_process_query yields before it ends: queue events,
\* then possibly the complete record or an {"error": ...} result
EventChunkTypes == {"content", "agent_call", "agent_response"}
TerminalChunkTypes == {"complete", "error"}

\* a chunk as its receiver sees it when it is handed over: ids tells whether
\* user_message_id and assistant_message_id are in it
Chunk(type, n, ids) == [type |-> type, n |-> n, ids |-> ids]

PsInit ==
    /\ ps_pc = "idle"
    /\ ps_base = <<>>
    /\ ps_out = <<>>
    /\ ps_stored = 0
    /\ ps_user = 0
    /\ ps_full = <<>>
    /\ ps_assistant = <<>>

\* the base generator has yielded its complete record or its error result
BaseTerminated == ps_base # <<>> /\ Last(ps_base).type \in TerminalChunkTypes

\* lines 118-159: user and conversation are resolved, the user message is
\* stored, the base generator is created
PsStart ==
    /\ ps_pc = "idle"
    /\ ps_pc' = "next"
    /\ ps_user' = ps_user + 1
    /\ ps_full' = <<>>
    /\ UNCHANGED <<ps_base, ps_out, ps_stored, ps_assistant>>
    /\ UNCHANGED notPs

\* lines 159-165: the base generator yields a chunk, which is yielded on
PsForward(type) ==
    /\ ps_pc = "next"
    /\ ~BaseTerminated
    /\ type \in EventChunkTypes => Len(ps_base) < MaxChunks
    /\ ps_base' = Append(ps_base, Chunk(type, Len(ps_base) + 1, FALSE))
    /\ ps_out' = Append(ps_out, Chunk(type, Len(ps_base) + 1, FALSE))
    /\ ps_pc' = "forwarded"
    /\ UNCHANGED <<ps_stored, ps_user, ps_full, ps_assistant>>
    /\ UNCHANGED notPs

\* lines 168-170: `if "content" in chunk: full_response_content += ...`
\* (a fragment is named by its position in the base stream)
Collected(full, chunk) ==
    IF chunk.type = "content" THEN Append(full, chunk.n) ELSE full

\* lines 167-194: after the yield the chunk is collected; a complete chunk
\* has the assistant message stored, is annotated and yielded
PsCollect ==
    /\ ps_pc = "forwarded"
    /\ IF Last(ps_base).type = "complete"
       THEN /\ ps_stored' = ps_stored + 1
            /\ ps_assistant' = Append(ps_assistant, ps_full)
            /\ ps_out' = Append(ps_out, Chunk("complete", Len(ps_base), TRUE))
            /\ ps_pc' = "annotated"
            /\ UNCHANGED ps_full
       ELSE /\ ps_pc' = "next"
            /\ ps_full' = Collected(ps_full, Last(ps_base))
            /\ UNCHANGED <<ps_out, ps_stored, ps_assistant>>
    /\ UNCHANGED <<ps_base, ps_user>>
    /\ UNCHANGED notPs

\* the caller comes back after the annotated chunk
PsAfterAnnotated ==
    /\ ps_pc = "annotated"
    /\ ps_pc' = "next"
    /\ UNCHANGED <<ps_base, ps_out, ps_stored, ps_user, ps_full, ps_assistant>>
    /\ UNCHANGED notPs

\* the base generator is exhausted (after its terminal chunk, or, when its
\* drain loop ended on the loop condition, without one)
PsClose ==
    /\ ps_pc = "next"
    /\ ps_pc' = "closed"
    /\ UNCHANGED <<ps_base, ps_out, ps_stored, ps_user, ps_full, ps_assistant>>
    /\ UNCHANGED notPs

PersistStreamNext ==
    \/ PsStart
    \/ \E type \in EventChunkTypes \cup TerminalChunkTypes : PsForward(type)
    \/ PsCollect
    \/ PsAfterAnnotated
    \/ PsClose

\* ------------------------------------------------------------------------
\* POST /api/query of the enhanced API: which session and user reach the
\* runtime (src/api/enhanced_runtime_api.py)
\* ------------------------------------------------------------------------
\* an X-Session-Token header or session_token field that is absent
NoToken == 0

\* token values a request may carry: none, issued ones, one never issued
TokenInputs == {NoToken} \cup Tokens \cup {MaxSessions + 1}

\* a token is a random secret: a request can carry one only once it has
\* been issued (or carry a value that was never issued)
PresentableTokens == {NoToken, MaxSessions + 1} \cup 1..Len(issued)

\* user_id values of a request body
BodyUserInputs == {NULL, "u9"}

\* SessionModel.id of the session with token t
SessionIdOf(t) == IF t = 1 THEN "s1" ELSE "s2"

\* SessionModel.user_id: the first session was created for user u1, any
\* other without a user
SessionUserOf(t) == IF t = 1 THEN "u1" ELSE NULL

NoApiRequest == [header |-> NoToken, body_token |-> NoToken, body_user |-> NULL]

ApiInit ==
    /\ api_pc = "idle"
    /\ api_in = NoApiRequest
    /\ api_session_id = NULL
    /\ api_user_id = NULL
    /\ api_hdr = [session |-> NULL, user |-> NULL]
    /\ api_at = <<>>

\* get_session(db, t): the row, unless there is none or it has expired
LiveSession(t) ==
    {row \in SessionByToken(t) : ~Expired(row.expires_at, now)}

\* get_session(db, t): an expired row is deleted
LookupSession(t) ==
    LET old == {row \in SessionByToken(t) : Expired(row.expires_at, now)}
    IN /\ sessions' = sessions \ old
       /\ expired_gone' = IF old # {} THEN expired_gone \cup {t} ELSE expired_gone
       /\ api_at' = Append(api_at, now)
       /\ UNCHANGED <<now, users, conversations, messages, req, issued,
                      sess_last, req_overlap>>

\* a body user_id that is ignored
OverrideUserNever(body_user, current) == current

\* `if request.user_id: user_id = request.user_id`
OverrideUser(body_user, current) ==
    IF body_user \notin {NULL, ""} THEN body_user ELSE current

\* get_session_from_token (Depends): the id of the header's live session
ApiHeaderSession(h, bt, bu) ==
    /\ api_pc = "idle"
    /\ {h, bt} \subseteq PresentableTokens
    /\ api_in' = [header |-> h, body_token |-> bt, body_user |-> bu]
    /\ api_session_id' = IF h # NoToken /\ LiveSession(h) # {}
                         THEN SessionIdOf(h) ELSE NULL
    /\ LookupSession(h)
    /\ api_pc' = "dep_session"
    /\ UNCHANGED <<api_user_id, api_hdr>>
    /\ UNCHANGED notApi

\* get_user_from_session (Depends): the user of the header's live session
ApiHeaderUser ==
    /\ api_pc = "dep_session"
    /\ LET u == IF api_in.header # NoToken /\ LiveSession(api_in.header) # {}
                THEN SessionUserOf(api_in.header) ELSE NULL
       IN /\ api_user_id' = u
          /\ api_hdr' = [session |-> api_session_id, user |-> u]
    /\ LookupSession(api_in.header)
    /\ api_pc' = "dep_user"
    /\ UNCHANGED <<api_in, api_session_id>>
    /\ UNCHANGED notApi

\* process_query, lines 227-236: the body's session_token, then its user_id
ApiBody ==
    /\ api_pc = "dep_user"
    /\ LET t == api_in.body_token
           hit == t # NoToken /\ LiveSession(t) # {}
       IN /\ api_session_id' = IF hit THEN SessionIdOf(t) ELSE api_session_id
          /\ api_user_id' = OverrideUser(api_in.body_user,
                                         IF hit THEN SessionUserOf(t)
                                         ELSE api_user_id)
          /\ LookupSession(t)
    /\ api_pc' = "handed"
    /\ UNCHANGED <<api_in, api_hdr>>
    /\ UNCHANGED notApi

QueryApiNext ==
    \/ \E h \in ExpiryChoices : CreateSession(h)
    \/ Tick
    \/ \E h \in TokenInputs, bt \in TokenInputs, bu \in BodyUserInputs :
          ApiHeaderSession(h, bt, bu)
    \/ ApiHeaderUser
    \/ ApiBody

\* ------------------------------------------------------------------------
\* The math operations: the embedded MathPlugin and the remote math tools
\* ------------------------------------------------------------------------
\* integer arguments of a call
MathArgs == (0 - MaxArg)..MaxArg

MathOps == {"Divide", "Modulo", "ModularInverse"}

\* a returned value / a raised exception with its message
Value(v) == [kind |-> "value", v |-> v]
Raised(exc, msg) == [kind |-> exc, msg |-> msg]

Abs(x) == IF x < 0 THEN 0 - x ELSE x

RECURSIVE Gcd(_, _)
Gcd(x, y) == IF y = 0 THEN Abs(x) ELSE Gcd(y, Abs(x) % Abs(y))

\* Python's a % b for integers, b # 0: the result has the divisor's sign
PyMod(a, b) == IF b > 0 THEN a % b ELSE 0 - ((0 - a) % (0 - b))

\* Python's a / b for numbers that are exact as floats, b # 0: the quotient,
\* held as a fraction in lowest terms with a positive denominator
PyTrueDiv(a, b) ==
    LET g == Gcd(a, b)
        s == IF b < 0 THEN 0 - 1 ELSE 1
    IN <<(s * a) \div g, (s * b) \div g>>

\* `a % m` raises ZeroDivisionError for m = 0
ZeroModulo == Raised("ZeroDivisionError", <<"integer modulo by zero">>)

\* f"No modular inverse exists for {a} mod {m}." (a already reduced)
NoInverse(a, m) == Raised("ValueError", <<"No modular inverse exists for", a, m>>)

RECURSIVE plugin_scan(_, _, _)
\* MathPlugin.modular_inverse: `for x in range(1, modulus)`
plugin_scan(input, modulus, x) ==
    IF x >= modulus THEN NoInverse(input, modulus)
    ELSE IF PyMod(input * x, modulus) = 1 THEN Value(x)
    ELSE plugin_scan(input, modulus, x + 1)

RECURSIVE tool_scan(_, _, _)
\* modular_inverse of the tool server: `for x in range(1, m)`
tool_scan(a, m, x) ==
    IF x >= m THEN NoInverse(a, m)
    ELSE IF PyMod(a * x, m) = 1 THEN Value(x)
    ELSE tool_scan(a, m, x + 1)

\* MathPlugin.divide
plugin_divide(input, amount) ==
    IF amount = 0 THEN Raised("ValueError", <<"Cannot divide by zero.">>)
    ELSE Value(PyTrueDiv(input, amount))

\* MathPlugin.modulo
plugin_modulo(input, amount) ==
    IF amount = 0 THEN Raised("ValueError", <<"Cannot modulo by zero.">>)
    ELSE Value(PyMod(input, amount))

\* MathPlugin.modular_inverse
plugin_modular_inverse(input, modulus) ==
    IF modulus = 0 THEN ZeroModulo
    ELSE plugin_scan(PyMod(input, modulus), modulus, 1)

\* divide of the tool server (float(a), float(b) of small integers are exact)
tool_divide(a, b) ==
    IF b = 0 THEN Raised("ValueError", <<"Cannot divide by zero.">>)
    ELSE Value(PyTrueDiv(a, b))

\* a remainder that takes the sign of the dividend
tool_modulo_truncating(a, b) ==
    IF b = 0 THEN Raised("ValueError", <<"Cannot modulo by zero.">>)
    ELSE Value(IF a < 0 THEN 0 - (Abs(a) % Abs(b)) ELSE a % Abs(b))

\* modulo of the tool server (int(a), int(b) of integers are a and b)
tool_modulo(a, b) ==
    IF b = 0 THEN Raised("ValueError", <<"Cannot modulo by zero.">>)
    ELSE Value(PyMod(a, b))

\* modular_inverse of the tool server
tool_modular_inverse(a, m) ==
    IF m = 0 THEN ZeroModulo
    ELSE tool_scan(PyMod(a, m), m, 1)

NoMathCall == [op |-> "none", a |-> 0, b |-> 0]

MathInit ==
    /\ math_call = NoMathCall
    /\ plugin_result = Value(0)
    /\ tool_result = Value(0)

\* one operation is invoked with the same arguments on both implementations
MathCall(op, a, b) ==
    /\ math_call = NoMathCall
    /\ math_call' = [op |-> op, a |-> a, b |-> b]
    /\ plugin_result' = CASE op = "Divide" -> plugin_divide(a, b)
                          [] op = "Modulo" -> plugin_modulo(a, b)
                          [] op = "ModularInverse" -> plugin_modular_inverse(a, b)
    /\ tool_result' = CASE op = "Divide" -> tool_divide(a, b)
                        [] op = "Modulo" -> tool_modulo(a, b)
                        [] op = "ModularInverse" -> tool_modular_inverse(a, b)
    /\ UNCHANGED notMath

MathNext == \E op \in MathOps, a \in MathArgs, b \in MathArgs : MathCall(op, a, b)

\* ------------------------------------------------------------------------
\* The remote-tool Math Agent: solve_math_problem
\* ------------------------------------------------------------------------
\* a text is a sequence of characters
UpperCase == <<"A", "B", "C", "D", "E", "F", "G", "H", "I", "J", "K", "L", "M", "N", "O", "P", "Q", "R", "S", "T", "U", "V", "W", "X", "Y", "Z">>
LowerCase == <<"a", "b", "c", "d", "e", "f", "g", "h", "i", "j", "k", "l", "m", "n", "o", "p", "q", "r", "s", "t", "u", "v", "w", "x", "y", "z">>
Digits == {"0", "1", "2", "3", "4", "5", "6", "7", "8", "9"}

\* str.lower()
lower(t) ==
    [i \in 1..Len(t) |->
        IF \E j \in 1..26 : UpperCase[j] = t[i]
        THEN LowerCase[CHOOSE j \in 1..26 : UpperCase[j] = t[i]]
        ELSE t[i]]

\* str.strip(): the text without its leading and trailing white space
strip(t) ==
    LET ink == {i \in 1..Len(t) : t[i] # " "}
    IN IF ink = {} THEN <<>>
       ELSE SubSeq(t, CHOOSE i \in ink : \A j \in ink : i <= j,
                      CHOOSE i \in ink : \A j \in ink : i >= j)

\* k in t
Contains(k, t) ==
    \E i \in 0..(Len(t) - Len(k)) : SubSeq(t, i + 1, i + Len(k)) = k

\* the index after the digits that start at i
RECURSIVE DigitRunEnd(_, _)
DigitRunEnd(t, i) ==
    IF i <= Len(t) /\ t[i] \in Digits THEN DigitRunEnd(t, i + 1) ELSE i

\* the index after the match of -?\d+\.?\d* that starts at i, 0 if none does
MatchEnd(t, i) ==
    LET s == IF t[i] = "-" THEN i + 1 ELSE i
        d == DigitRunEnd(t, s)
    IN IF d = s THEN 0
       ELSE IF d <= Len(t) /\ t[d] = "." THEN DigitRunEnd(t, d + 1)
       ELSE d

\* re.findall: the matches from left to right, none overlapping
RECURSIVE findall(_, _)
findall(t, i) ==
    IF i > Len(t) THEN <<>>
    ELSE LET e == MatchEnd(t, i)
         IN IF e = 0 THEN findall(t, i + 1)
            ELSE <<SubSeq(t, i, e - 1)>> \o findall(t, e)

\* the number a sequence of digits writes
RECURSIVE DigitsValue(_)
DigitsValue(ds) ==
    IF ds = <<>> THEN 0
    ELSE 10 * DigitsValue(SubSeq(ds, 1, Len(ds) - 1))
         + (CHOOSE n \in 0..9 : ToString(n) = ds[Len(ds)])

\* float(num): the sign, the whole part and the digits after the point
float(num) ==
    LET neg == num[1] = "-"
        body == IF neg THEN Tail(num) ELSE num
        dots == {i \in 1..Len(body) : body[i] = "."}
        w == IF dots = {} THEN body
             ELSE SubSeq(body, 1, (CHOOSE i \in dots : TRUE) - 1)
        f == IF dots = {} THEN <<>>
             ELSE SubSeq(body, (CHOOSE i \in dots : TRUE) + 1, Len(body))
    IN [whole |-> IF neg THEN 0 - DigitsValue(w) ELSE DigitsValue(w),
        frac |-> f]

extract_numbers(text) ==
    LET numbers == findall(text, 1)
    IN [i \in 1..Len(numbers) |-> float(numbers[i])]

\* what a handler did: the tool it called with its arguments, or no call
Answer(handler, tool, args) == [handler |-> handler, tool |-> tool, args |-> args]

handle_division(text) ==
    LET numbers == extract_numbers(text)
    IN IF Len(numbers) >= 2
       THEN Answer("handle_division", "divide", <<numbers[1], numbers[2]>>)
       ELSE Answer("handle_division", "none", <<>>)

\* the handlers of the other categories, by name
Handled(handler) == Answer(handler, "other", <<>>)

\* the same chain with the logarithm asked first
solve_math_problem_log_first(q) ==
    LET text == strip(lower(q))
    IN
       IF Contains(<<"l", "o", "g">>, text)
       THEN Handled("handle_logarithm")
       ELSE IF Contains(<<"a", "d", "d">>, text)
            \/ Contains(<<"p", "l", "u", "s">>, text)
            \/ Contains(<<" ", "+", " ">>, text)
       THEN Handled("handle_addition")
       ELSE IF Contains(<<"s", "u", "b", "t", "r", "a", "c", "t">>, text)
            \/ Contains(<<"m", "i", "n", "u", "s">>, text)
            \/ Contains(<<" ", "-", " ">>, text)
       THEN Handled("handle_subtraction")
       ELSE IF Contains(<<"m", "u", "l", "t", "i", "p", "l", "y">>, text)
            \/ Contains(<<"t", "i", "m", "e", "s">>, text)
            \/ Contains(<<" ", "*", " ">>, text)
            \/ Contains(<<" ", "×", " ">>, text)
       THEN Handled("handle_multiplication")
       ELSE IF Contains(<<"d", "i", "v", "i", "d", "e">>, text)
            \/ Contains(<<"d", "i", "v", "i", "d", "e", "d", " ", "b", "y">>, text)
            \/ Contains(<<" ", "/", " ">>, text)
            \/ Contains(<<" ", "÷", " ">>, text)
       THEN handle_division(text)
       ELSE IF Contains(<<"s", "q", "u", "a", "r", "e", " ", "r", "o", "o", "t">>, text)
            \/ Contains(<<"s", "q", "r", "t">>, text)
       THEN Handled("handle_square_root")
       ELSE IF Contains(<<"p", "o", "w", "e", "r">>, text)
            \/ Contains(<<"r", "a", "i", "s", "e", "d", " ", "t", "o">>, text)
            \/ Contains(<<" ", "^", " ">>, text)
            \/ Contains(<<"*", "*">>, text)
       THEN Handled("handle_power")
       ELSE IF Contains(<<"l", "o", "g">>, text)
            \/ Contains(<<"l", "o", "g", "a", "r", "i", "t", "h", "m">>, text)
       THEN Handled("handle_logarithm")
       ELSE IF Contains(<<"m", "o", "d", "u", "l", "o">>, text)
            \/ Contains(<<"m", "o", "d", " ">>, text)
            \/ Contains(<<" ", "%", " ">>, text)
       THEN Handled("handle_modulo")
       ELSE Handled("handle_complex_expression")

\* solve_math_problem: the chain of substring tests, in the order of the code
solve_math_problem(q) ==
    LET text == strip(lower(q))
    IN
       IF Contains(<<"a", "d", "d">>, text)
            \/ Contains(<<"p", "l", "u", "s">>, text)
            \/ Contains(<<" ", "+", " ">>, text)
       THEN Handled("handle_addition")
       ELSE IF Contains(<<"s", "u", "b", "t", "r", "a", "c", "t">>, text)
            \/ Contains(<<"m", "i", "n", "u", "s">>, text)
            \/ Contains(<<" ", "-", " ">>, text)
       THEN Handled("handle_subtraction")
       ELSE IF Contains(<<"m", "u", "l", "t", "i", "p", "l", "y">>, text)
            \/ Contains(<<"t", "i", "m", "e", "s">>, text)
            \/ Contains(<<" ", "*", " ">>, text)
            \/ Contains(<<" ", "×", " ">>, text)
       THEN Handled("handle_multiplication")
       ELSE IF Contains(<<"d", "i", "v", "i", "d", "e">>, text)
            \/ Contains(<<"d", "i", "v", "i", "d", "e", "d", " ", "b", "y">>, text)
            \/ Contains(<<" ", "/", " ">>, text)
            \/ Contains(<<" ", "÷", " ">>, text)
       THEN handle_division(text)
       ELSE IF Contains(<<"s", "q", "u", "a", "r", "e", " ", "r", "o", "o", "t">>, text)
            \/ Contains(<<"s", "q", "r", "t">>, text)
       THEN Handled("handle_square_root")
       ELSE IF Contains(<<"p", "o", "w", "e", "r">>, text)
            \/ Contains(<<"r", "a", "i", "s", "e", "d", " ", "t", "o">>, text)
            \/ Contains(<<" ", "^", " ">>, text)
            \/ Contains(<<"*", "*">>, text)
       THEN Handled("handle_power")
       ELSE IF Contains(<<"l", "o", "g">>, text)
            \/ Contains(<<"l", "o", "g", "a", "r", "i", "t", "h", "m">>, text)
       THEN Handled("handle_logarithm")
       ELSE IF Contains(<<"m", "o", "d", "u", "l", "o">>, text)
            \/ Contains(<<"m", "o", "d", " ">>, text)
            \/ Contains(<<" ", "%", " ">>, text)
       THEN Handled("handle_modulo")
       ELSE Handled("handle_complex_expression")

NoAnswer == Answer("none", "none", <<>>)

\* the words the queries are made of
QueryWords ==
    {<<"W", "h", "a", "t", " ", "i", "s", " ", "1", "2">>,
     <<"4">>,
     <<"D", "i", "v", "i", "d", "e", "d", " ", "b", "y">>,
     <<"p", "l", "u", "s">>,
     <<"+">>,
     <<"m", "o", "d">>,
     <<"l", "o", "g">>}

\* the words joined by single spaces
RECURSIVE JoinWords(_)
JoinWords(ws) ==
    IF Len(ws) = 1 THEN ws[1]
    ELSE ws[1] \o <<" ">> \o JoinWords(Tail(ws))

\* the queries: up to MaxWords words, and possibly a trailing space
QueryTexts ==
    UNION {{JoinWords(ws) \o pad : ws \in [1..n -> QueryWords], pad \in {<<>>, <<" ">>}} :
           n \in 1..MaxWords}

ClsInit ==
    /\ agent_query = <<>>
    /\ agent_answer = NoAnswer

\* one query is answered
SolveMathProblem ==
    /\ agent_answer = NoAnswer
    /\ \E q \in QueryTexts :
          /\ agent_query' = q
          /\ agent_answer' = solve_math_problem(q)
    /\ UNCHANGED notCls

MathAgentNext == SolveMathProblem

\* ------------------------------------------------------------------------
\* The peer agents: receive_message
\* ------------------------------------------------------------------------
PeerAgents == {"hello_agent", "math_agent", "math_agent_mcp"}

\* AGENT_ID of each service
AGENT_ID(agent) == IF agent = "hello_agent" THEN "hello-agent" ELSE "math-agent"

\* the agents whose receive_message reads the stream flag
Streaming(agent) == agent # "hello_agent"

\* a key of the JSON body: absent, or given with a value
Absent == [given |-> FALSE, v |-> ""]
Given(v) == [given |-> TRUE, v |-> v]

\* message.get(key, "")
Get(field) == IF field.given THEN field.v ELSE ""

\* request.json: no body (None), the empty object, or an object with keys
NoBody == [body |-> "none", messageId |-> Absent, conversationId |-> Absent,
           senderId |-> Absent, stream |-> FALSE]
EmptyBody == [NoBody EXCEPT !.body = "empty"]
Envelopes ==
    [body : {"object"}, messageId : {Given("m-request")},
     conversationId : {Absent, Given("c1")},
     senderId : {Absent, Given("runtime"), Given("user")}, stream : BOOLEAN]
PeerRequests == {NoBody, EmptyBody} \cup Envelopes

\* the n-th value of uuid.uuid4()
Uuid4(n) == <<"uuid4", n>>

\* what a response carries beside its status
NoEnvelope == [messageId |-> <<>>, conversationId |-> "", senderId |-> "",
               recipientId |-> ""]
Answered(status, body, envelope) ==
    [status |-> status, kind |-> body, envelope |-> envelope]

\* a response that keeps the sender and the recipient of the request
ResponseEnvelopeEcho(agent, message, id) ==
    [messageId |-> id,
     conversationId |-> Get(message.conversationId),
     senderId |-> Get(message.senderId),
     recipientId |-> AGENT_ID(agent)]

\* the response message of receive_message
ResponseEnvelope(agent, message, id) ==
    [messageId |-> id,
     conversationId |-> Get(message.conversationId),
     senderId |-> AGENT_ID(agent),
     recipientId |-> Get(message.senderId)]

PeerInit ==
    /\ peer_agent = "none"
    /\ peer_request = NoBody
    /\ peer_response = Answered(0, "none", NoEnvelope)
    /\ peer_issued = <<>>

\* POST /api/message: `processed` tells whether process_message returned
receive_message(agent, message, processed) ==
    /\ Len(peer_issued) < MaxMessages
    /\ peer_agent' = agent
    /\ peer_request' = message
    /\ IF message.body # "object"
       THEN \* if not message
            /\ peer_response' = Answered(400, "error", NoEnvelope)
            /\ UNCHANGED peer_issued
       ELSE IF Streaming(agent) /\ message.stream
       THEN /\ peer_response' = Answered(200, "event-stream", NoEnvelope)
            /\ UNCHANGED peer_issued
       ELSE IF processed
       THEN LET id == Uuid4(Len(peer_issued) + 1)
            IN /\ peer_response' =
                     Answered(200, "message", ResponseEnvelope(agent, message, id))
               /\ peer_issued' = Append(peer_issued, id)
       ELSE /\ peer_response' = Answered(500, "error", NoEnvelope)
            /\ UNCHANGED peer_issued
    /\ UNCHANGED notPeer

PeerNext ==
    \E agent \in PeerAgents, message \in PeerRequests, processed \in BOOLEAN :
        receive_message(agent, message, processed)

\* ------------------------------------------------------------------------
\* The store: deletions and their cascades
\* ------------------------------------------------------------------------
\* the uuid4 default of the conversation created under the session of token t
ConvOfSession(t) == IF t = 1 THEN "sk1" ELSE "sk2"

\* Session.conversations: the rows whose session_id is the session's id
ConversationsOf(t) == {c \in conversations : c.session_id = SessionIdOf(t)}

\* Conversation.messages of a set of conversations: the rows of the store
MessagesIn(convs) ==
    {messages[i] : i \in {j \in 1..Len(messages) :
                             \E c \in convs : c.id = messages[j].conversation_id}}

RemovalOps == {"delete_conversation", "delete_session", "get_session"}

NoRemoval == [pc |-> "idle", op |-> "none", cid |-> NULL, token |-> NoToken,
              existed |-> FALSE, expired |-> FALSE, convs |-> {}, msgs |-> {},
              result |-> "none"]

CasInit ==
    /\ removal = NoRemoval
    /\ created_in = {}

\* POST /api/conversations with the token of a live session: the header
\* lookups return the session, create_conversation adds and commits the row
CreateConversationIn(t) ==
    /\ LiveSession(t) # {}
    /\ ~\E c \in created_in : c.id = ConvOfSession(t)
    /\ LET uid == IF SessionUserOf(t) # NULL THEN SessionUserOf(t)
                  ELSE IF AnonymousRows # {}
                       THEN (CHOOSE u \in AnonymousRows : TRUE).id
                       ELSE "anon0"
           row == [id |-> ConvOfSession(t), user_id |-> uid,
                   session_id |-> SessionIdOf(t)]
       IN /\ users' = IF \E u \in users : u.id = uid THEN users
                      ELSE users \cup {[id |-> uid, username |-> "anonymous"]}
          /\ conversations' = conversations \cup {row}
          /\ created_in' = created_in \cup {row}
    /\ UNCHANGED <<now, sessions, messages, req, issued, expired_gone,
                   sess_last, req_overlap>>
    /\ UNCHANGED removal
    /\ UNCHANGED notCas

\* a call enters `async with get_db()` (delete_conversation) or is handed a
\* db session (delete_session, get_session)
RemovalStart(op, k, t) ==
    /\ removal.pc \in {"idle", "done"}
    /\ removal' = [NoRemoval EXCEPT !.pc = "select", !.op = op, !.cid = k,
                                    !.token = t]
    /\ UNCHANGED <<dbVars, created_in>>
    /\ UNCHANGED notCas

\* the select of the row to delete: get_conversation, or the select by token
RemovalSelect ==
    /\ removal.pc = "select"
    /\ IF removal.op = "delete_conversation"
       THEN LET rows == get_conversation(removal.cid)
            IN removal' = IF rows = {}
                          THEN [removal EXCEPT !.pc = "done", !.result = "False"]
                          ELSE [removal EXCEPT !.pc = "load", !.existed = TRUE,
                                               !.convs = rows]
       ELSE LET rows == SessionByToken(removal.token)
                old == \E row \in rows : Expired(row.expires_at, now)
            IN removal' =
                 IF rows = {}
                 THEN [removal EXCEPT !.pc = "done",
                          !.result = IF removal.op = "get_session" THEN "None"
                                     ELSE "False"]
                 ELSE IF removal.op = "delete_session"
                 THEN [removal EXCEPT !.pc = "load", !.existed = TRUE]
                 ELSE IF old
                 THEN [removal EXCEPT !.pc = "select_again", !.existed = TRUE,
                                      !.expired = TRUE]
                 ELSE [removal EXCEPT !.pc = "done", !.existed = TRUE,
                                      !.result = "session"]
    /\ UNCHANGED <<dbVars, created_in>>
    /\ UNCHANGED notCas

\* get_session found the row expired: delete_session selects it again
RemovalSelectAgain ==
    /\ removal.pc = "select_again"
    /\ removal' = IF SessionByToken(removal.token) = {}
                  THEN [removal EXCEPT !.pc = "done", !.result = "None"]
                  ELSE [removal EXCEPT !.pc = "load"]
    /\ UNCHANGED <<dbVars, created_in>>
    /\ UNCHANGED notCas

\* `await db.delete(row)`: the delete cascades along the relationships
\* declared cascade="all, delete-orphan", whose rows are loaded now
RemovalLoad ==
    /\ removal.pc = "load"
    /\ LET convs == IF removal.op = "delete_conversation" THEN removal.convs
                    ELSE ConversationsOf(removal.token)
       IN removal' = [removal EXCEPT !.pc = "commit", !.convs = convs,
                                     !.msgs = MessagesIn(convs)]
    /\ UNCHANGED <<dbVars, created_in>>
    /\ UNCHANGED notCas

\* `await db.commit()`: the rows marked deleted are deleted
RemovalCommit ==
    /\ removal.pc = "commit"
    /\ sessions' = IF removal.op = "delete_conversation" THEN sessions
                   ELSE sessions \ SessionByToken(removal.token)
    /\ conversations' = conversations \ removal.convs
    /\ messages' = SelectSeq(messages, LAMBDA m : m \notin removal.msgs)
    /\ expired_gone' = IF removal.op = "get_session"
                       THEN expired_gone \cup {removal.token}
                       ELSE expired_gone
    /\ removal' = [removal EXCEPT !.pc = "done",
                      !.result = IF removal.op = "get_session" THEN "None"
                                 ELSE "True"]
    /\ UNCHANGED <<now, users, req, issued, sess_last, req_overlap>>
    /\ UNCHANGED created_in
    /\ UNCHANGED notCas

\* conversation ids handed to the calls of this part
CascadeCids == {NULL, "k1", "sk1"}

\* one persisted query of user u1, one session and its conversation being
\* created, time passing, and one deletion or lookup at a time, in any
\* interleaving
CascadeNext ==
    \/ \E h \in ExpiryChoices : CreateSession(h) /\ issued = <<>>
    \/ Tick
    \/ CreateConversationIn(1)
    \/ \E k \in CascadeCids : PStart(1, k, "u1")
    \/ PUserSelect(1)
    \/ PConv(1)
    \/ PUserMsg(1)
    \/ PProcess(1)
    \/ \E ok \in BOOLEAN : PAsstMsg(1, ok)
    \/ PTouch(1)
    \/ \E k \in CascadeCids \ {NULL} : RemovalStart("delete_conversation", k, NoToken)
    \/ RemovalStart("delete_session", NULL, 1)
    \/ RemovalStart("get_session", NULL, 1)
    \/ RemovalSelect
    \/ RemovalSelectAgain
    \/ RemovalLoad
    \/ RemovalCommit

\* ------------------------------------------------------------------------
\* AgentRuntime.stream_process_query and the conversation records
\* ------------------------------------------------------------------------
\* lines 509-540, the first step of the generator: the id is resolved, the
\* record is created if missing, the user turn is appended and the
\* background task is created
SpqBegin(q, cid) ==
    /\ query[q].pc = "idle"
    /\ LET k == ResolveConversationId(q, cid)
       IN /\ conversation_records' =
                [conversation_records EXCEPT
                    ![k] = [exists |-> TRUE,
                            turns |-> Append(ExistingTurns(@), Turn("user", q))]]
          /\ query' = [query EXCEPT
                          ![q] = [NoQuery EXCEPT !.pc = "task", !.cid_in = cid,
                                                 !.cid = k,
                                                 !.base = Len(conversation_records[k].turns)]]
    /\ query_overlap' = (query_overlap \/ \E o \in Queries : query[o].pc \in {"await", "task"})
    /\ UNCHANGED notPq

\* lines 654-685: the background task appends the assistant turn and
\* returns the complete record
SpqTaskFinish(q) ==
    /\ query[q].pc = "task"
    /\ conversation_records' =
          [conversation_records EXCEPT
              ![query[q].cid].turns = Append(@, Turn("assistant", q))]
    /\ query' = [query EXCEPT ![q].pc = "done", ![q].shape = "complete",
                              ![q].content = "answer",
                              ![q].conversationId = query[q].cid]
    /\ UNCHANGED query_overlap
    /\ UNCHANGED notPq

\* lines 686-692: no kernel, or an exception: the task returns {"error": ...}
SpqTaskFail(q) ==
    /\ query[q].pc = "task"
    /\ query' = [query EXCEPT ![q].pc = "done", ![q].shape = "error",
                              ![q].content = "Error processing query: e",
                              ![q].error = TRUE]
    /\ UNCHANGED <<conversation_records, query_overlap>>
    /\ UNCHANGED notPq

\* process_query and stream_process_query calls in any interleaving
RecordsNext ==
    \/ ProcessQueryNext
    \/ \E q \in Queries, cid \in ConvIdInputs : SpqBegin(q, cid)
    \/ \E q \in Queries : SpqTaskFinish(q)
    \/ \E q \in Queries : SpqTaskFail(q)

\* ------------------------------------------------------------------------
\* The service supervisor: ServiceManager
\* ------------------------------------------------------------------------
\* the agent services, in the order start_all_services starts them
Services == <<"hello_agent", "goodbye_agent", "math_agent">>

Did(act, p) == [act |-> act, p |-> p]

\* poll() is None
StillRunning(p) == child[p] = "running"

\* a wait whose timeout is ignored
AfterWaitNoKill(p, exited) ==
    IF exited THEN <<Did("wait_returned", p)>> ELSE <<Did("wait_timeout", p)>>

\* what follows process.terminate(): wait(timeout=10) returns, or raises
\* TimeoutExpired and the process is killed
AfterWait(p, exited) ==
    IF exited THEN <<Did("wait_returned", p)>>
    ELSE <<Did("wait_timeout", p), Did("kill", p)>>

SupInit ==
    /\ sup_pc = "starting"
    /\ processes = <<>>
    /\ child = [p \in {Services[i] : i \in 1..Len(Services)} |-> "none"]
    /\ sup_i = 1
    /\ sup_recorded = {}
    /\ sup_log = <<>>

\* lines 93-99: the next agent is started and recorded, or Popen raises and
\* the agent is left out
StartAgent(ok) ==
    /\ sup_pc = "starting"
    /\ sup_i <= Len(Services)
    /\ LET p == Services[sup_i]
       IN IF ok
          THEN /\ processes' = Append(processes, p)
               /\ child' = [child EXCEPT ![p] = "running"]
               /\ sup_recorded' = sup_recorded \cup {p}
          ELSE UNCHANGED <<processes, child, sup_recorded>>
    /\ sup_i' = sup_i + 1
    /\ UNCHANGED <<sup_pc, sup_log>>
    /\ UNCHANGED notSup

\* lines 101-132: the in-process services are created as tasks, the signal
\* handlers are installed and the event loop runs
Serve ==
    /\ sup_pc = "starting"
    /\ sup_i > Len(Services)
    /\ sup_pc' = "serving"
    /\ UNCHANGED <<processes, child, sup_i, sup_recorded, sup_log>>
    /\ UNCHANGED notSup

\* a child process ends by itself
ChildExits(p) ==
    /\ child[p] = "running"
    /\ child' = [child EXCEPT ![p] = "exited"]
    /\ UNCHANGED <<sup_pc, processes, sup_i, sup_recorded, sup_log>>
    /\ UNCHANGED notSup

\* SIGINT or SIGTERM: signal_handler calls shutdown_all_services
Signal ==
    /\ sup_pc = "serving"
    /\ sup_pc' = "handler_shutdown"
    /\ sup_i' = 1
    /\ sup_log' = Append(sup_log, Did("signal", NULL))
    /\ UNCHANGED <<processes, child, sup_recorded>>
    /\ UNCHANGED notSup

InShutdown == sup_pc \in {"handler_shutdown", "finally_shutdown"}

\* lines 143-151, one round of the loop: a process that is still running is
\* terminated and waited for, for 10 seconds at most, then killed
ShutdownProcess(exited) ==
    /\ InShutdown
    /\ sup_i <= Len(processes)
    /\ LET p == processes[sup_i]
       IN IF StillRunning(p)
          THEN /\ sup_log' = sup_log \o <<Did("terminate", p)>> \o AfterWait(p, exited)
               /\ child' = [child EXCEPT ![p] = IF exited THEN "exited" ELSE "killed"]
          ELSE UNCHANGED <<sup_log, child>>
    /\ sup_i' = sup_i + 1
    /\ UNCHANGED <<sup_pc, processes, sup_recorded>>
    /\ UNCHANGED notSup

\* line 153: self.processes.clear(); back in the handler, or in the finally
ShutdownClear ==
    /\ InShutdown
    /\ sup_i > Len(processes)
    /\ processes' = <<>>
    /\ sup_log' = Append(sup_log, Did("clear", NULL))
    /\ sup_pc' = IF sup_pc = "handler_shutdown" THEN "handler_cancel" ELSE "closed"
    /\ UNCHANGED <<child, sup_i, sup_recorded>>
    /\ UNCHANGED notSup

\* lines 123-125: the tasks of the in-process services are cancelled and the
\* loop is stopped
CancelTasks ==
    /\ sup_pc = "handler_cancel"
    /\ sup_log' = Append(sup_log, Did("cancel", NULL))
    /\ sup_pc' = "stopped"
    /\ UNCHANGED <<processes, child, sup_i, sup_recorded>>
    /\ UNCHANGED notSup

\* lines 132-137: run_until_complete is left, the finally block runs
\* shutdown_all_services again
Finally ==
    /\ sup_pc = "stopped"
    /\ sup_pc' = "finally_shutdown"
    /\ sup_i' = 1
    /\ sup_log' = Append(sup_log, Did("finally", NULL))
    /\ UNCHANGED <<processes, child, sup_recorded>>
    /\ UNCHANGED notSup

SupervisorNext ==
    \/ \E ok \in BOOLEAN : StartAgent(ok)
    \/ Serve
    \/ \E p \in DOMAIN child : ChildExits(p)
    \/ Signal
    \/ \E exited \in BOOLEAN : ShutdownProcess(exited)
    \/ ShutdownClear
    \/ CancelTasks
    \/ Finally

\* ------------------------------------------------------------------------
\* get_runtime: the runtime singleton of an API process
\* ------------------------------------------------------------------------
\* the requests whose get_runtime dependency is resolved on the event loop
RtRequests == 1..MaxRequests

\* _runtime_instance = None
NoRuntime == [made |-> FALSE, n |-> 0]
\* the n-th instance the constructor returned
Runtime(n) == [made |-> TRUE, n |-> n]

\* a test that never finds the instance
IsNoneAlways(instance) == TRUE

\* `if _runtime_instance is None`
IsNone(instance) == instance = NoRuntime

RtInit ==
    /\ runtime_instance = NoRuntime
    /\ constructed = 0
    /\ rt_req = [r \in RtRequests |-> [pc |-> "idle", got |-> NoRuntime]]

\* get_runtime up to its first suspension: with no instance yet the
\* constructor runs (and may raise), the instance is assigned and the call
\* sleeps; otherwise the instance is returned at once
GetRuntimeEnter(r, ok) ==
    /\ rt_req[r].pc = "idle"
    /\ IF IsNone(runtime_instance)
       THEN IF ok
            THEN /\ constructed' = constructed + 1
                 /\ runtime_instance' = Runtime(constructed + 1)
                 /\ rt_req' = [rt_req EXCEPT ![r].pc = "sleeping"]
            ELSE /\ rt_req' = [rt_req EXCEPT ![r].pc = "raised"]
                 /\ UNCHANGED <<runtime_instance, constructed>>
       ELSE /\ rt_req' = [rt_req EXCEPT ![r].pc = "returned",
                                        ![r].got = runtime_instance]
            /\ UNCHANGED <<runtime_instance, constructed>>
    /\ UNCHANGED notRt

\* asyncio.sleep(1) is over: `return _runtime_instance`
GetRuntimeWake(r) ==
    /\ rt_req[r].pc = "sleeping"
    /\ rt_req' = [rt_req EXCEPT ![r].pc = "returned", ![r].got = runtime_instance]
    /\ UNCHANGED <<runtime_instance, constructed>>
    /\ UNCHANGED notRt

RuntimeNext ==
    \/ \E r \in RtRequests, ok \in BOOLEAN : GetRuntimeEnter(r, ok)
    \/ \E r \in RtRequests : GetRuntimeWake(r)

\* ------------------------------------------------------------------------
\* _process_query_with_events: the agents_used of the terminal event
\* ------------------------------------------------------------------------
NoTerminal == [shape |-> "none", agents_used |-> <<>>]

StInit ==
    /\ st_pc = "idle"
    /\ st_n = 0
    /\ st_called = <<>>
    /\ st_terminal = NoTerminal

\* lines 657-664: the list is the global, if it is set, and the globals are
\* reset
AgentsUsed(last) == IF last # NULL THEN <<last>> ELSE <<>>

\* the other members of gcVars, which the streaming call leaves alone
gcRequestVars == <<gc_pc, gc_in, gc_agents, gc_cid, gc_i, gc_responses, gc_result>>

\* stream_process_query creates the background task
StreamBegin ==
    /\ st_pc \in {"idle", "done"}
    /\ st_n < MaxStreams
    /\ st_n' = st_n + 1
    /\ st_pc' = "running"
    /\ st_called' = <<>>
    /\ st_terminal' = NoTerminal
    /\ UNCHANGED notSt

\* the kernel's function calling invokes call_agent during the streaming call
StreamCallAgent(a, cid) ==
    /\ st_pc = "running"
    /\ Len(st_called) < MaxAgentCalls
    /\ IsRegistered(a)
    /\ CallAgentEnter(a, "runtime", cid, TRUE)
    /\ st_called' = Append(st_called, a)
    /\ st_pc' = "http"
    /\ UNCHANGED <<st_n, st_terminal, gcRequestVars>>
    /\ UNCHANGED notStGc

\* the agent's answer arrives
StreamAgentReturn(outcome, content) ==
    /\ st_pc = "http"
    /\ CallAgentExit(st_called[Len(st_called)], outcome, content, TRUE)
    /\ st_pc' = "running"
    /\ UNCHANGED <<st_n, st_called, st_terminal, gcRequestVars>>
    /\ UNCHANGED notStGc

\* lines 654-685: the response stream is exhausted, agents_used is taken
\* from the global and the complete record is returned
StreamComplete ==
    /\ st_pc = "running"
    /\ st_terminal' = [shape |-> "complete",
                       agents_used |-> AgentsUsed(last_called_agent)]
    /\ IF last_called_agent # NULL
       THEN /\ last_called_agent' = NULL
            /\ last_agent_response' = Unset
       ELSE UNCHANGED <<last_called_agent, last_agent_response>>
    /\ st_pc' = "done"
    /\ UNCHANGED <<st_n, st_called, gcRequestVars, gc_requests, gc_events, gc_log>>
    /\ UNCHANGED notStGc

\* lines 686-692: an exception ends the task with an error record; the
\* globals keep their values
StreamError ==
    /\ st_pc = "running"
    /\ st_terminal' = [shape |-> "error", agents_used |-> <<>>]
    /\ st_pc' = "done"
    /\ UNCHANGED <<st_n, st_called>>
    /\ UNCHANGED notSt

\* the operations of one process: first a non-streaming processQuery whose
\* kernel calls an agent, or a group chat over the registered agents (both
\* without a queue attached, with a fresh conversation), then streaming
\* calls one after the other
StreamAgentsNext ==
    \/ /\ st_n = 0
       /\ \/ GcStart([given |-> FALSE, ids |-> <<>>], 5, NULL, FALSE)
          \/ GcCallAgent
          \/ \E o \in Outcomes : GcAgentReturn(o, <<"A">>)
          \/ GcFinish
          \/ \E a \in IdInputs : KernelCall(a, NULL, FALSE)
          \/ \E o \in Outcomes : KernelReturn(o, <<"A">>)
    \/ /\ gc_pc \in {"idle", "done"}
       /\ \/ StreamBegin
          \/ \E a \in IdInputs : StreamCallAgent(a, NULL)
          \/ \E o \in Outcomes : StreamAgentReturn(o, <<"A">>)
          \/ StreamComplete
          \/ StreamError

Init ==
    /\ StreamInit /\ SseInit /\ DbInit /\ GcInit /\ PqInit /\ PsInit /\ ApiInit
    /\ MathInit
    /\ ClsInit
    /\ PeerInit
    /\ CasInit
    /\ SupInit
    /\ RtInit
    /\ StInit

Next == CallStep(1)

\* two streaming queries on one runtime instance, in any interleaving
OverlapStep(c) ==
    \/ StreamStart(c) /\ (c = 1 \/ pc[1] # "idle")
    \/ DrainGet(c)
    \/ StreamTimeout(c)
    \/ StreamResume(c)
    \/ StreamResumeResult(c)
    \/ TaskChunk(c)
    \/ \E a \in Agents : TaskCallAgent(c, a)
    \/ \E ok \in BOOLEAN : TaskAgentReturn(c, ok)
    \/ TaskFinish(c)
    \/ TaskFail(c)

OverlapNext == \E c \in Calls : OverlapStep(c)

SpecOverlap == Init /\ [][OverlapNext]_vars

SpecSse == Init /\ [][SseNext]_vars

SpecSession == Init /\ [][SessionNext]_vars

SpecPersist == Init /\ [][PersistNext]_vars

\* ------------------------------------------------------------------------
\* Properties of the streaming runtime
\* ------------------------------------------------------------------------
IsPrefix(s, t) == Len(s) <= Len(t) /\ \A i \in 1..Len(s) : s[i] = t[i]

\* the queue events among what call c has yielded
Delivered(c) == SelectSeq(out[c], LAMBDA e : e.type \in QueueEventTypes)

Ended(c) == pc[c] \in {"done", "abandoned", "failed"}

\* C1: a streaming query whose task returned the complete record and whose
\* sequence closed has yielded that record as its last item, once, after
\* every queue event.
C1_TerminalEventLast ==
    \A c \in Calls :
        (kind[c] = "query" /\ pc[c] = "done"
         /\ task[c].result.type = "complete")
        => /\ out[c] # <<>>
           /\ Last(out[c]) = task[c].result
           /\ \A i \in 1..(Len(out[c]) - 1) : out[c][i].type \in QueueEventTypes

\* C2: for a streaming query that never shared the runtime with another
\* streaming call, the queue events yielded so far are a prefix of the events
\* its task enqueued (each at most once, in enqueue order), and when the
\* sequence closes every enqueued event has been yielded.
C2_DeliveredInOrder ==
    \A c \in Calls :
        (kind[c] = "query" /\ ~overlapped[c])
        => /\ IsPrefix(Delivered(c), produced[c])
           /\ pc[c] = "done" => Delivered(c) = produced[c]

\* a second, sequential call has closed after yielding everything its task
\* enqueued, an agent_response among it
C2_Witness ==
    /\ pc[1] = "done" /\ pc[2] = "done"
    /\ ~overlapped[2]
    /\ Len(produced[2]) = 2
    /\ \E i \in 1..Len(out[2]) : out[2][i].type = "agent_response"

\* C3: there is no per-call queue: whenever an event is enqueued it lands on
\* the queue the runtime currently holds (the one the latest call created),
\* also when the producing task belongs to an earlier call.
C3_EnqueueOnSharedQueue ==
    [][\A q \in Calls : Len(queues'[q]) > Len(queues[q]) => q = event_queue]_vars

\* a caller has been handed an event produced by the other call's task
C3_Witness ==
    \E c \in Calls : \E i \in 1..Len(out[c]) :
        out[c][i].type \in QueueEventTypes /\ out[c][i].call # c

\* C4: when a streaming group chat has closed, its final content event and
\* the response of its complete event carry the content of the aggregate
\* Message the background task returned.
C4_GroupFinalIsAggregate ==
    \A c \in Calls :
        (kind[c] = "group" /\ pc[c] = "done" /\ TaskDone(c))
        => LET n == Len(out[c])
               r == task[c].result.response
           IN /\ n >= 4
              /\ out[c][n - 3] = FinalContent(c, r)
              /\ out[c][n - 2] = FinalComplete(c, r)

\* C5: once a streaming request has ended, however it ended, no registered
\* agent still holds an event-queue reference.
C5_QueueRefsCleared ==
    \A c \in Calls :
        Ended(c) => \A a \in Agents : agent_queue[a] = NoQueue

Spec == Init /\ [][Next]_vars

\* ------------------------------------------------------------------------
\* Properties of the SSE framing
\* ------------------------------------------------------------------------
\* C6: a closed SSE stream ends with a `data: [DONE]` line, has no other
\* [DONE] line, and every item before it is a `data: <JSON>` line.
C6_SseFraming ==
    sse_pc = "closed"
    => /\ sse_out # <<>>
       /\ Last(sse_out) = DoneLine
       /\ \A i \in 1..(Len(sse_out) - 1) :
              sse_out[i].frame = "data" /\ sse_out[i].payload = "json"

\* ------------------------------------------------------------------------
\* Properties of the persistence layer
\* ------------------------------------------------------------------------
Roles(rows) == [i \in 1..Len(rows) |-> rows[i].role]

\* two sequential calls, both returned, both passed conversation id k
TwoSequentialCalls(k) ==
    /\ ~req_overlap
    /\ req[1].pc = "done" /\ req[2].pc = "done"
    /\ req[1].cid_in = k /\ req[2].cid_in = k

C8_SessionLifecycle ==
    /\ \A row \in sessions : row.token \notin expired_gone
    /\ (sess_last.op = "get" /\ sess_last.existed)
       => IF sess_last.at <= issued[sess_last.token]
          THEN sess_last.found /\ SessionByToken(sess_last.token) # {}
          ELSE ~sess_last.found /\ SessionByToken(sess_last.token) = {}
                /\ sess_last.token \in expired_gone
    /\ (sess_last.op \in {"get", "delete"} /\ sess_last.token \in expired_gone)
       => ~sess_last.found
    /\ (sess_last.op \in {"get", "delete"} /\ ~sess_last.existed)
       => ~sess_last.found

\* a session was looked up after its expiry, and then looked up again
C8_Witness ==
    /\ sess_last.op = "get"
    /\ sess_last.token \in expired_gone
    /\ ~sess_last.existed
    /\ sess_last.at > issued[sess_last.token]

\* C9: the store never holds two rows with username "anonymous", and every
\* get_or_create_anonymous_user call that has ended returned that one row.
C9_OneAnonymousUser ==
    /\ Cardinality(AnonymousRows) <= 1
    /\ \A r \in Reqs :
          /\ req[r].anon # "IntegrityError"
          /\ req[r].anon = "returned" => \E u \in AnonymousRows : u.id = req[r].user

\* C10: after a failure inside the scoped session of a persisted query, no
\* row the request wrote remains in the store.
C10_FailureRollsBackAll ==
    \A r \in Reqs :
        req[r].pc = "failed"
        => /\ \A i \in 1..Len(messages) : messages[i].req # r
           /\ \A c \in conversations : c.id # NewConvId(r)
           /\ \A u \in users : u.id # AnonId(r)

SpecGroupChat == Init /\ [][GroupChatNext]_vars

\* ------------------------------------------------------------------------
\* Properties of the group chat and of call_agent
\* ------------------------------------------------------------------------
\* what the calls made so far returned, in the order they returned
Returned == SelectSeq(gc_log, LAMBDA l : l.ev = "return")

RECURSIVE StartOf(_, _)
\* where the i-th text starts in a text made of texts[1..] with one
\* separator token between neighbours
StartOf(texts, i) ==
    IF i = 1 THEN 0 ELSE StartOf(texts, i - 1) + Len(texts[i - 1]) + 1

\* C11: the Message a group chat returns has one agent_responses entry per
\* agent of the list, the i-th for the i-th agent and holding what the i-th
\* call returned, and its content is these results in list order with
\* exactly one space between neighbours.
C11_JoinedInListOrder ==
    (gc_in.mode = "group" /\ gc_result.returned)
    => LET n == Len(gc_agents)
           r == [i \in 1..Len(Returned) |-> Returned[i].result]
           c == gc_result.content
       IN /\ Len(Returned) = n
          /\ Len(gc_result.agent_responses) = n
          /\ \A i \in 1..n :
                /\ gc_result.agent_responses[i].agent_id = gc_agents[i]
                /\ gc_result.agent_responses[i].content = r[i]
                /\ SubSeq(c, StartOf(r, i) + 1, StartOf(r, i) + Len(r[i])) = r[i]
                /\ i < n => c[StartOf(r, i) + Len(r[i]) + 1] = " "
          /\ Len(c) = IF n = 0 THEN 0 ELSE StartOf(r, n) + Len(r[n])

\* a group of two returned; the first answered a text with a space in it and
\* the second failed
C11_Witness ==
    /\ gc_result.returned
    /\ gc_agents = <<"goodbye-agent", "hello-agent">>
    /\ gc_result.content = <<"B", " ", "C", " ", "Error calling agent: 500">>

\* C12: whatever max_iterations is, the calls of a group chat are the agents
\* of the list, each once, in list order, each entered only after the one
\* before has returned; the chat returns only after all of them.
C12_EveryAgentOnceInOrder ==
    gc_in.mode = "group"
    => /\ Len(gc_log) <= 2 * Len(gc_agents)
       /\ \A k \in 1..Len(gc_log) :
             /\ gc_log[k].agent = gc_agents[(k + 1) \div 2]
             /\ gc_log[k].ev = IF k % 2 = 1 THEN "call" ELSE "return"
       /\ gc_result.returned => Len(gc_log) = 2 * Len(gc_agents)

\* a chat with max_iterations = 0 over two agents has called both
C12_Witness ==
    /\ gc_in.mode = "group"
    /\ gc_in.max_iterations = 0
    /\ gc_result.returned
    /\ Len(gc_agents) = 2
    /\ Len(gc_log) = 4

\* C13: the group is the registered agents among agent_ids, in that order,
\* whenever agent_ids is supplied, and every registered agent only when it
\* is omitted; no agent outside the group is called.
C13_GroupIsNamedSubset ==
    gc_in.mode = "group"
    => /\ gc_agents = IF gc_in.agent_ids.given
                      THEN SelectSeq(gc_in.agent_ids.ids, IsRegistered)
                      ELSE RegisteredIds
       /\ \A k \in 1..Len(gc_log) :
             \E i \in 1..Len(gc_agents) : gc_log[k].agent = gc_agents[i]

\* C15: once call_agent has been entered last_called_agent is its agent; a
\* call that ended on a non-200 status or an exception returned an error
\* text and left last_agent_response unset; and the agent_response events
\* emitted are exactly those of the calls that ended on status 200 with a
\* queue attached.
C15_TransportFailureReturnsText ==
    gc_log # <<>>
    => LET l == Last(gc_log)
       IN /\ last_called_agent = l.agent
          /\ (l.ev = "return" /\ l.outcome # "200")
             => /\ l.result \in {StatusErrorText, ExceptionText}
                /\ last_agent_response = Unset
          /\ Len(SelectSeq(gc_events, LAMBDA e : e.type = "agent_response"))
             = IF gc_in.attached
               THEN Len(SelectSeq(gc_log, LAMBDA x : x.ev = "return"
                                                     /\ x.outcome = "200"))
               ELSE 0

\* with a queue attached, a call that answered 200 was followed by a call
\* to another agent that ended on status 500
C15_Witness ==
    /\ gc_in.attached
    /\ Len(gc_log) = 4
    /\ gc_log[2].outcome = "200"
    /\ gc_log[4].outcome = "500"
    /\ gc_log[2].agent # gc_log[4].agent

\* C18: every request an agent handle has built is addressed to the handle's
\* own id, has type 0 exactly when that id is "goodbye-agent" and type "Text"
\* otherwise, and carries the conversation id it was given unless it was
\* given None, in which case (and only then) the id is a generated one.
C18_RequestTypeByAgent ==
    \A k \in 1..Len(gc_requests) :
        LET r == gc_requests[k]
        IN /\ r.recipientId = r.handle
           /\ r.type = IF r.handle = "goodbye-agent" THEN "0" ELSE "\"Text\""
           /\ r.cid_arg # NULL => r.conversationId = r.cid_arg
           /\ r.cid_arg = NULL <=> r.conversationId = RequestUuid

\* the goodbye agent's handle has built a request without a conversation id
C18_Witness ==
    \E k \in 1..Len(gc_requests) :
        /\ gc_requests[k].handle = "goodbye-agent"
        /\ gc_requests[k].cid_arg = NULL
        /\ gc_requests[k].type = "0"

SpecProcessQuery == Init /\ [][ProcessQueryNext]_vars

\* ------------------------------------------------------------------------
\* Properties of process_query
\* ------------------------------------------------------------------------
\* the turns call q has put into its conversation record
TurnsOf(q) ==
    SelectSeq(conversation_records[query[q].cid].turns, LAMBDA t : t.call = q)

\* C14: a process_query call that has ended returned a Message for the
\* conversation id it resolved; when the completion failed the Message holds
\* the failure text and an error field and the record has gained the call's
\* user turn only; when it succeeded the record has gained the user turn and
\* then the assistant turn. Without an overlapping call these turns are
\* exactly what was appended after the turns that were there before.
C14_ErrorResultNotRaised ==
    \A q \in Queries :
        query[q].pc = "done"
        => LET gained == IF query[q].error
                         THEN <<Turn("user", q)>>
                         ELSE <<Turn("user", q), Turn("assistant", q)>>
               turns == conversation_records[query[q].cid].turns
           IN /\ query[q].shape = "message"
              /\ query[q].conversationId = ResolveConversationId(q, query[q].cid_in)
              /\ query[q].error <=> query[q].content = "Error processing query: e"
              /\ TurnsOf(q) = gained
              /\ ~query_overlap
                 => SubSeq(turns, query[q].base + 1,
                           query[q].base + Len(gained)) = gained

\* on one conversation, a call that succeeded was followed by one that failed
C14_Witness ==
    /\ ~query_overlap
    /\ query[1].pc = "done" /\ ~query[1].error
    /\ query[2].pc = "done" /\ query[2].error
    /\ query[1].cid = "c1" /\ query[2].cid = "c1"
    /\ Len(conversation_records["c1"].turns) = 3

SpecPersistStream == Init /\ [][PersistStreamNext]_vars

\* ------------------------------------------------------------------------
\* Properties of the persisted stream
\* ------------------------------------------------------------------------
\* C16: when the persisted stream has closed its caller has received the
\* chunks of the base stream, each once and in order, and the complete chunk
\* it received carried the message ids.
C16_EachChunkForwardedOnce ==
    ps_pc = "closed"
    => /\ Len(ps_out) = Len(ps_base)
       /\ \A i \in 1..Len(ps_out) :
             /\ ps_out[i].type = ps_base[i].type
             /\ ps_out[i].n = ps_base[i].n
             /\ ps_out[i].type = "complete" => ps_out[i].ids

SpecQueryApi == Init /\ [][QueryApiNext]_vars

\* ------------------------------------------------------------------------
\* Properties of the enhanced API's query endpoint
\* ------------------------------------------------------------------------
\* token t named a session that had not expired at time at
WasLive(t, at) == t \in 1..Len(issued) /\ at <= issued[t]

\* C17: the session and user handed to the runtime: the header's live
\* session gives the first values; a body session_token naming a live
\* session replaces both, one that is absent, unknown or expired leaves them;
\* a body user_id then replaces the user.
C17_BodyOverridesHeader ==
    api_pc = "handed"
    => LET bt == api_in.body_token
           bodyLive == WasLive(bt, api_at[3])
       IN /\ api_hdr.session = IF WasLive(api_in.header, api_at[1])
                               THEN SessionIdOf(api_in.header) ELSE NULL
          /\ api_hdr.user = IF WasLive(api_in.header, api_at[2])
                            THEN SessionUserOf(api_in.header) ELSE NULL
          /\ api_session_id = IF bodyLive THEN SessionIdOf(bt) ELSE api_hdr.session
          /\ api_user_id = IF api_in.body_user # NULL THEN api_in.body_user
                           ELSE IF bodyLive THEN SessionUserOf(bt)
                           ELSE api_hdr.user

\* the header named a live session with a user, the body an expired session
\* and a user id
C17_Witness ==
    /\ api_pc = "handed"
    /\ api_in.header = 1 /\ api_in.body_token = 2 /\ api_in.body_user = "u9"
    /\ api_hdr.session = "s1" /\ api_hdr.user = "u1"
    /\ 2 \in expired_gone
    /\ api_session_id = "s1" /\ api_user_id = "u9"

SpecMath == Init /\ [][MathNext]_vars

\* ------------------------------------------------------------------------
\* Properties of the math operations
\* ------------------------------------------------------------------------
\* the x of [1, m-1] with (a mod m) * x mod m = 1
Inverses(a, m) ==
    IF m < 2 THEN {}
    ELSE {x \in 1..(m - 1) : ((a % m) * x) % m = 1}

\* the operation failed with NotFound: "No modular inverse exists ..."
IsNotFound(res) ==
    /\ res.kind = "ValueError"
    /\ res.msg[1] = "No modular inverse exists for"

\* C19: ModularInverse(a, m), in either implementation, returns the smallest
\* x of [1, m-1] with (a mod m) * x mod m = 1 when there is one, which for
\* m >= 2 is exactly when gcd(a mod m, m) = 1, and fails with NotFound when
\* there is none.
C19_SmallestInverseOrNotFound ==
    math_call.op = "ModularInverse"
    => LET a == math_call.a
           m == math_call.b
           xs == Inverses(a, m)
       IN /\ m >= 2 => (xs # {} <=> Gcd(a % m, m) = 1)
          /\ \A res \in {plugin_result, tool_result} :
                IF xs # {}
                THEN /\ res.kind = "value"
                     /\ res.v \in xs
                     /\ \A x \in xs : res.v <= x
                ELSE IsNotFound(res)

\* the same two results: the same value, or the same exception and message
SameResult(x, y) ==
    /\ x.kind = y.kind
    /\ IF x.kind = "value" THEN x.v = y.v ELSE x.msg = y.msg

SpecMathAgent == Init /\ [][MathAgentNext]_vars

\* ------------------------------------------------------------------------
\* Properties of the remote-tool Math Agent's classification
\* ------------------------------------------------------------------------
\* the categories in their fixed order, each with its handler and keywords
Categories ==
    <<[name |-> "addition", handler |-> "handle_addition",
       keywords |-> {<<"a", "d", "d">>, <<"p", "l", "u", "s">>, <<" ", "+", " ">>}],
      [name |-> "subtraction", handler |-> "handle_subtraction",
       keywords |-> {<<"s", "u", "b", "t", "r", "a", "c", "t">>, <<"m", "i", "n", "u", "s">>, <<" ", "-", " ">>}],
      [name |-> "multiplication", handler |-> "handle_multiplication",
       keywords |-> {<<"m", "u", "l", "t", "i", "p", "l", "y">>, <<"t", "i", "m", "e", "s">>, <<" ", "*", " ">>, <<" ", "×", " ">>}],
      [name |-> "division", handler |-> "handle_division",
       keywords |-> {<<"d", "i", "v", "i", "d", "e">>, <<"d", "i", "v", "i", "d", "e", "d", " ", "b", "y">>, <<" ", "/", " ">>, <<" ", "÷", " ">>}],
      [name |-> "square_root", handler |-> "handle_square_root",
       keywords |-> {<<"s", "q", "u", "a", "r", "e", " ", "r", "o", "o", "t">>, <<"s", "q", "r", "t">>}],
      [name |-> "power", handler |-> "handle_power",
       keywords |-> {<<"p", "o", "w", "e", "r">>, <<"r", "a", "i", "s", "e", "d", " ", "t", "o">>, <<" ", "^", " ">>, <<"*", "*">>}],
      [name |-> "logarithm", handler |-> "handle_logarithm",
       keywords |-> {<<"l", "o", "g">>, <<"l", "o", "g", "a", "r", "i", "t", "h", "m">>}],
      [name |-> "modulo", handler |-> "handle_modulo",
       keywords |-> {<<"m", "o", "d", "u", "l", "o">>, <<"m", "o", "d", " ">>, <<" ", "%", " ">>}]>>

\* the first category one of whose keywords occurs in the text, 0 if none
FirstCategory(text) ==
    LET hit == {i \in 1..Len(Categories) :
                   \E k \in Categories[i].keywords : Contains(k, text)}
    IN IF hit = {} THEN 0 ELSE CHOOSE i \in hit : \A j \in hit : i <= j

\* the answer is the one of the first category matching the text: its
\* handler, the help message when there is none, and a division of the
\* first by the second number of the text when it is the division
AnsweredAsFirstCategory(text) ==
    LET c == FirstCategory(text)
        numbers == extract_numbers(text)
    IN /\ c = 0 <=> agent_answer.handler = "handle_complex_expression"
       /\ c # 0 => agent_answer.handler = Categories[c].handler
       /\ (c # 0 /\ Categories[c].name = "division" /\ Len(numbers) >= 2)
            => /\ agent_answer.tool = "divide"
               /\ agent_answer.args = <<numbers[1], numbers[2]>>

\* C21 as stated: the query is classified as the first category, in the order
\* addition, subtraction, multiplication, division, square root, power,
\* logarithm, modulo, whose keyword set matches the lower-cased text, the help
\* message is returned only when none matches, and a division takes its
\* operands left to right.
C21_FirstMatchOnLowered ==
    agent_answer # NoAnswer => AnsweredAsFirstCategory(lower(agent_query))

\* C21: the query is classified as the first category, in the fixed order,
\* whose keyword set matches the lower-cased text stripped of its leading
\* and trailing white space; the help message is returned only when none
\* matches, and a division takes its operands left to right.
C21_FirstMatchOnStripped ==
    agent_answer # NoAnswer => AnsweredAsFirstCategory(strip(lower(agent_query)))

\* "What is 12 Divided by 4": the division of 12 by 4
C21_Witness ==
    /\ agent_query = <<"W", "h", "a", "t", " ", "i", "s", " ", "1", "2", " ", "D", "i", "v", "i", "d", "e", "d", " ", "b", "y", " ", "4">>
    /\ agent_answer = Answer("handle_division", "divide",
                             <<[whole |-> 12, frac |-> <<>>], [whole |-> 4, frac |-> <<>>]>>)

SpecPeer == Init /\ [][PeerNext]_vars

\* ------------------------------------------------------------------------
\* Properties of the peer agents' envelopes
\* ------------------------------------------------------------------------
\* no id occurs twice
AllDistinct(ids) ==
    \A i, j \in 1..Len(ids) : i # j => ids[i] # ids[j]

\* C22: a request envelope with content that a peer agent answers 200 with a
\* message gets one whose recipientId is the request's senderId, whose
\* senderId is the agent's fixed identity, whose conversationId is the
\* request's and whose messageId was generated for it and never used before;
\* an absent or empty body is answered 400 without an envelope.
C22_EnvelopeAnswersRequest ==
    /\ (peer_response.status = 200 /\ peer_response.kind = "message")
        => LET e == peer_response.envelope
           IN /\ peer_request.body = "object"
              /\ e.recipientId = Get(peer_request.senderId)
              /\ e.senderId = AGENT_ID(peer_agent)
              /\ e.conversationId = Get(peer_request.conversationId)
              /\ e.messageId = peer_issued[Len(peer_issued)]
              /\ e.messageId # Get(peer_request.messageId)
              /\ AllDistinct(peer_issued)
    /\ (peer_agent # "none" /\ peer_request.body # "object")
        => /\ peer_response.status = 400
           /\ peer_response.envelope = NoEnvelope
    /\ (peer_request.body = "object" /\ ~peer_request.stream)
        => peer_response.status \in {200, 500}

\* the second message answered by the Math Agent, to the runtime's envelope
C22_Witness ==
    /\ peer_agent = "math_agent_mcp"
    /\ peer_request = [body |-> "object", messageId |-> Given("m-request"),
                       conversationId |-> Given("c1"),
                       senderId |-> Given("runtime"), stream |-> FALSE]
    /\ peer_response = Answered(200, "message",
           [messageId |-> Uuid4(2), conversationId |-> "c1",
            senderId |-> "math-agent", recipientId |-> "runtime"])
    /\ Len(peer_issued) = 2

SpecCascade == Init /\ [][CascadeNext]_vars

\* ------------------------------------------------------------------------
\* Properties of the deletions
\* ------------------------------------------------------------------------
\* C23: whatever persistence operations have run and however a
\* deleteConversation interleaved with a persisted query on its conversation,
\* every Message row references an existing Conversation (so a deleted
\* conversation leaves no Message behind), and deleteConversation returned
\* true exactly when the conversation existed.
C23_NoOrphanMessage ==
    /\ \A i \in 1..Len(messages) :
          get_conversation(messages[i].conversation_id) # {}
    /\ (removal.op = "delete_conversation" /\ removal.pc = "done")
        => (removal.result = "True" <=> removal.existed)

\* the ids of the conversations created under the session of token t
EverOf(t) == {c.id : c \in {x \in created_in : x.session_id = SessionIdOf(t)}}

\* the lookup in progress returns in this step
LookupReturns ==
    /\ removal.op = "get_session"
    /\ removal.pc # "done"
    /\ removal'.pc = "done"

\* C30: a getSession lookup that presents an expired token has removed, when
\* it returns, the session, every Conversation that references it and those
\* Conversations' Messages; a lookup that presents a live or unknown token
\* leaves all rows unchanged.
C30_LookupCascades ==
    [][LookupReturns =>
        IF removal'.expired
        THEN /\ \A row \in sessions' : row.token # removal.token
             /\ \A c \in conversations' : c.session_id # SessionIdOf(removal.token)
             /\ \A i \in 1..Len(messages') :
                   messages'[i].conversation_id \notin EverOf(removal.token)
        ELSE UNCHANGED <<sessions, conversations, messages>>]_vars

\* ------------------------------------------------------------------------
\* Properties of the events of call_agent
\* ------------------------------------------------------------------------
\* the type and the agent of each agent event among the given events
AgentEvents(events) ==
    LET es == SelectSeq(events, LAMBDA e : e.type \in {"agent_call", "agent_response"})
    IN [i \in 1..Len(es) |-> <<es[i].type, es[i].agent>>]

\* the agent events of calls that returned: each one an agent_call, followed
\* by an agent_response when the status was 200
RECURSIVE EventsOfCalls(_)
EventsOfCalls(calls) ==
    IF calls = <<>> THEN <<>>
    ELSE LET a == calls[1][1]
             ok == calls[1][2]
         IN <<<<"agent_call", a>>>>
            \o (IF ok THEN <<<<"agent_response", a>>>> ELSE <<>>)
            \o EventsOfCalls(Tail(calls))

SpecRecords == Init /\ [][RecordsNext]_vars

\* ------------------------------------------------------------------------
\* Properties of the conversation records under concurrent calls
\* ------------------------------------------------------------------------
\* the number of turns of a role in a sequence of turns
CountRole(turns, role) == Len(SelectSeq(turns, LAMBDA t : t.role = role))

\* every record holds one user turn per call that has begun on its id and
\* one assistant turn per call on it that has finished without failure,
\* each turn that of such a call
Counted(recs, qs) ==
    \A k \in RecordIds :
        LET begun == {q \in Queries : qs[q].pc # "idle" /\ qs[q].cid = k}
            good == {q \in begun : qs[q].pc = "done" /\ ~qs[q].error}
        IN /\ CountRole(recs[k].turns, "user") = Cardinality(begun)
           /\ CountRole(recs[k].turns, "assistant") = Cardinality(good)
           /\ \A q \in begun :
                 \E i \in 1..Len(recs[k].turns) : recs[k].turns[i] = Turn("user", q)
           /\ \A q \in good :
                 \E i \in 1..Len(recs[k].turns) : recs[k].turns[i] = Turn("assistant", q)

\* C25: under any interleaving of process_query and stream_process_query
\* calls, also on one conversation id, no update to a conversation record is
\* lost: every step leaves the turns already there in place and only appends,
\* and a record holds exactly one user turn per call and one assistant turn
\* per call that completed without failure.
C25_NoLostUpdate ==
    [][/\ \A k \in RecordIds :
             IsPrefix(conversation_records[k].turns, conversation_records'[k].turns)
       /\ Counted(conversation_records', query')]_vars

\* a process_query call and a streaming call overlapped on conversation c1
\* and both have finished: the record holds both user turns, then both
\* assistant turns
C25_Witness ==
    /\ query[1].pc = "done" /\ query[2].pc = "done"
    /\ query[1].shape = "message" /\ query[2].shape = "complete"
    /\ conversation_records["c1"].turns =
           <<Turn("user", 1), Turn("user", 2), Turn("assistant", 2), Turn("assistant", 1)>>

SpecSupervisor == Init /\ [][SupervisorNext]_vars

\* ------------------------------------------------------------------------
\* Properties of the supervisor's shutdown
\* ------------------------------------------------------------------------
\* what the supervisor did to process p, in order
DoneTo(p) ==
    LET es == SelectSeq(sup_log, LAMBDA e : e.p = p)
    IN [i \in 1..Len(es) |-> es[i].act]

\* the position of the first entry of an act in the log, 0 if there is none
FirstOf(act) ==
    LET at == {i \in 1..Len(sup_log) : sup_log[i].act = act}
    IN IF at = {} THEN 0 ELSE CHOOSE i \in at : \A j \in at : i <= j

\* C26: on a termination signal every recorded child is shut down before the
\* in-process services are cancelled: a child still running is sent
\* terminate, waited for, and killed exactly when the wait timed out; then
\* the process list is empty, and the shutdown that runs again on exit acts
\* on no process.
C26_ChildrenBeforeCancel ==
    /\ \A p \in DOMAIN child :
          /\ DoneTo(p) \in {<<>>, <<"terminate", "wait_returned">>,
                            <<"terminate", "wait_timeout", "kill">>}
          /\ child[p] = "killed" <=> DoneTo(p) = <<"terminate", "wait_timeout", "kill">>
    /\ sup_pc \in {"handler_cancel", "stopped", "finally_shutdown", "closed"}
        => /\ \A p \in sup_recorded : child[p] \in {"exited", "killed"}
           /\ processes = <<>>
    /\ FirstOf("cancel") # 0
        => /\ FirstOf("clear") # 0 /\ FirstOf("clear") < FirstOf("cancel")
           /\ \A i \in 1..Len(sup_log) :
                 sup_log[i].p # NULL => i < FirstOf("clear")

\* three children were started; at the signal one had exited, one exited
\* within the wait and one was killed; the supervisor has closed
C26_Witness ==
    /\ sup_pc = "closed"
    /\ sup_recorded = {"hello_agent", "goodbye_agent", "math_agent"}
    /\ DoneTo("hello_agent") = <<>>
    /\ DoneTo("goodbye_agent") = <<"terminate", "wait_returned">>
    /\ DoneTo("math_agent") = <<"terminate", "wait_timeout", "kill">>
    /\ Len(SelectSeq(sup_log, LAMBDA e : e.act = "clear")) = 2

SpecRuntime == Init /\ [][RuntimeNext]_vars

\* ------------------------------------------------------------------------
\* Properties of the runtime singleton
\* ------------------------------------------------------------------------
\* C27: an API process constructs at most one Agent Runtime, however many
\* first requests reach get_runtime concurrently and also while the first is
\* in its one-second delay: every request is handed the same instance.
C27_OneRuntime ==
    /\ constructed <= 1
    /\ \A r \in RtRequests :
          rt_req[r].pc = "returned"
          => /\ rt_req[r].got = Runtime(1)
             /\ rt_req[r].got = runtime_instance

\* the first request is still in its delay and two later ones have been
\* handed the instance it constructed
C27_Witness ==
    /\ rt_req[1].pc = "sleeping"
    /\ rt_req[2].pc = "returned" /\ rt_req[3].pc = "returned"
    /\ rt_req[2].got = Runtime(1) /\ rt_req[3].got = Runtime(1)
    /\ constructed = 1

SpecStreamAgents == Init /\ [][StreamAgentsNext]_vars

\* ------------------------------------------------------------------------
\* Properties of the streaming call's agents_used
\* ------------------------------------------------------------------------
\* C28: the agents_used of a streaming call's terminal complete event names
\* only agents whose call_agent executed during that same call; with no
\* agent called during the call the list is empty, whatever operations ran
\* before it in the process.
C28_OnlyOwnAgents ==
    st_terminal.shape = "complete"
    => \A i \in 1..Len(st_terminal.agents_used) :
          \E j \in 1..Len(st_called) : st_called[j] = st_terminal.agents_used[i]

\* ------------------------------------------------------------------------
\* Properties of the rows a persisted stream stores
\* ------------------------------------------------------------------------
\* the content fragments handed to the caller, in order
ForwardedFragments ==
    LET c == SelectSeq(ps_out, LAMBDA x : x.type = "content")
    IN [i \in 1..Len(c) |-> c[i].n]

\* C29: a persisted streaming call consumed to its end has stored exactly
\* one user message and exactly one assistant message, whose content is the
\* concatenation of the content fragments forwarded to the caller, also when
\* the base stream ends with an error event or without a complete event.
C29_OneUserOneAssistant ==
    ps_pc = "closed"
    => /\ ps_user = 1
       /\ Len(ps_assistant) = 1
       /\ ps_assistant[1] = ForwardedFragments

====
